---- MODULE Spec2Model ----
(***************************************************************************)
(* Model of the regime-score core of quantization-ai:                      *)
(*   - DDService.signal_line       (service/indicators/DDService.py)       *)
(*   - RegimeService.calculate_macd (service/RegimeService.py)             *)
(*   - RegimeService.combine_factors (service/RegimeService.py)            *)
(*                                                                         *)
(* Numbers.  Prices, DIF/DEA values and factor values are drawn from small *)
(* sets of integers.  Results that the code computes as floats are kept    *)
(* exact: a trend score is a reduced fraction [num, den]; a Z-score is     *)
(* kept as deviation over standard deviation, [dev, n1, q], meaning        *)
(* dev * sqrt(n1 / q) (see ZScore).  Python sequences are 0-based, the     *)
(* sequences here 1-based: bar i of the code is element i+1.               *)
(***************************************************************************)
EXTENDS Integers, Sequences, FiniteSets, TLC

\* ------------------------------------------------------------------ bounds
MaxBars == 5

\* DIF and DEA values of one bar; every order (<, =, >) of the two occurs.
DifValues == 0..2
DeaValues == 0..1
\* datatime of the first bar; bar k carries StartTime + k - 1 (one bar per
\* time step, the first one not at time 1 so that a datatime is not an index).
StartTimes == {2}
\* the period argument of calculate_macd (default 20)
Periods == {2, 20}

\* combine_factors: the factor lists hold at most MaxItems FactorResults in
\* all
MaxItems == 3
\* the factor names, weights, timestamps and values of those FactorResults
FactorNames == {"boll", "cci"}
\* as many lists as factors (a name may come twice); combine_factors pools
\* the lists before anything else, so their number matters no further
MaxLists == Cardinality(FactorNames)
Weights == -1..2
Times == 1..2
FactorValues == 0..1

\* the calculate_* calls: a dataset repeats a pattern of PatLen bars
PatLen == 2

\* --------------------------------------------------------------- constants
GoldenBase == 100000
DeathBase == 200000

VARIABLES
    pc,             \* position of the running call
    dif_points,     \* DDService._dif(dataset): sequence of DDDataPoint
    dea_points,     \* DDService._dea(dataset): sequence of DDDataPoint
    i,              \* signal_line: number of bars already processed
    current_signal, \* signal_line local
    signal_type,    \* signal_line local: "none" (None), "golden", "death"
    signal_counter, \* signal_line local
    signal_points,  \* signal_line's result list
    period,         \* calculate_macd argument
    trend_direction,\* calculate_macd local of the last iteration
    trend_duration, \* calculate_macd local of the last iteration
    result,         \* calculate_macd's result list of FactorResult
    factors,        \* RegimeService.factors: factor name -> weight
    factor_results_list, \* combine_factors argument
    df,             \* combine_factors local: the pooled, normalized rows
    combined,       \* combine_factors' result list
    earlier_combined, \* the result list of the caller's previous call
    dataset,        \* the bar series a calculate_* call is given
    locals,         \* calculate_*: which one is called, and its locals
    correlation_matrix, \* calculate_factor_correlation's result
    captured,       \* history: per factor list, what the registry held for
                    \* its name when the list was calculated
    strategy,       \* the fields of a CtaTemplate strategy object
    engine          \* the CTA engine around it: bars delivered, open orders

vars == <<pc, dif_points, dea_points, i, current_signal, signal_type,
          signal_counter, signal_points, period, trend_direction,
          trend_duration, result, factors, factor_results_list, df,
          combined, earlier_combined, dataset, locals, correlation_matrix,
          captured, strategy, engine>>

\* the variables of calculate_macd / signal_line, and of combine_factors
macd_vars == <<dif_points, dea_points, i, current_signal, signal_type,
               signal_counter, signal_points, period, trend_direction,
               trend_duration, result>>
combine_vars == <<factor_results_list, df, combined, earlier_combined>>
\* the variables of the other calculate_* calls, and of a caller's session
factor_vars == <<dataset, locals>>
session_vars == <<correlation_matrix, captured>>
\* the variables of a trading strategy
trading_vars == <<strategy, engine>>

\* ----------------------------------------------------------------- helpers
\* no calculate_* call other than calculate_macd is running
NoCall == [call |-> "none"]
\* no strategy is running
NoStrategy == [strategy_name |-> "none"]
NoEngine == [bars |-> 0]

\* Indicator values are whole numbers, or, when the call's locals say so,
\* counted in 1/unit.
Unit(l) == IF "unit" \in DOMAIN l THEN l.unit ELSE 1

Abs(x) == IF x < 0 THEN -x ELSE x
Min(a, b) == IF a <= b THEN a ELSE b

RECURSIVE Gcd(_, _)
Gcd(a, b) == IF b = 0 THEN Abs(a) ELSE Gcd(b, a % b)

\* the fraction n/d (d > 0) in lowest terms
Frac(n, d) ==
    LET g == Gcd(Abs(n), d)
    IN  [num |-> n \div g, den |-> d \div g]

\* DDDataPoint(datatime, value)
DDDataPoint(t, v) == [datatime |-> t, value |-> v]

\* The series a dataset of n bars yields: one point per bar, same datatime
\* in _dif and _dea.
SeriesOfLen(n, Values) ==
    UNION {{[k \in 1..n |-> DDDataPoint(t0 + k - 1, f[k])] :
                f \in [1..n -> Values]} : t0 \in StartTimes}

\* ---------------------------------------------------- DDService.signal_line
\* Variants of CrossStep with one slip each.
\* a cross does not reset signal_counter
CrossStep_NoReset(st, prev_dif, prev_dea, dif_value, dea_value) ==
    IF prev_dif <= prev_dea /\ dif_value > dea_value
    THEN [signal_type |-> "golden", signal_counter |-> st.signal_counter,
          current_signal |-> GoldenBase]
    ELSE IF prev_dif >= prev_dea /\ dif_value < dea_value
    THEN [signal_type |-> "death", signal_counter |-> st.signal_counter,
          current_signal |-> DeathBase]
    ELSE IF st.signal_type = "golden" /\ dif_value > dea_value
    THEN [signal_type |-> "golden",
          signal_counter |-> st.signal_counter + 1,
          current_signal |-> GoldenBase + (st.signal_counter + 1)]
    ELSE IF st.signal_type = "death" /\ dif_value < dea_value
    THEN [signal_type |-> "death",
          signal_counter |-> st.signal_counter + 1,
          current_signal |-> DeathBase + (st.signal_counter + 1)]
    ELSE st

\* a continuation emits the counter before it is advanced
CrossStep_OffByOne(st, prev_dif, prev_dea, dif_value, dea_value) ==
    IF prev_dif <= prev_dea /\ dif_value > dea_value
    THEN [signal_type |-> "golden", signal_counter |-> 0,
          current_signal |-> GoldenBase]
    ELSE IF prev_dif >= prev_dea /\ dif_value < dea_value
    THEN [signal_type |-> "death", signal_counter |-> 0,
          current_signal |-> DeathBase]
    ELSE IF st.signal_type = "golden" /\ dif_value > dea_value
    THEN [signal_type |-> "golden",
          signal_counter |-> st.signal_counter + 1,
          current_signal |-> GoldenBase + st.signal_counter]
    ELSE IF st.signal_type = "death" /\ dif_value < dea_value
    THEN [signal_type |-> "death",
          signal_counter |-> st.signal_counter + 1,
          current_signal |-> DeathBase + st.signal_counter]
    ELSE st

\* a bar to which no rule applies resets to no signal
CrossStep_Reset(st, prev_dif, prev_dea, dif_value, dea_value) ==
    IF prev_dif <= prev_dea /\ dif_value > dea_value
    THEN [signal_type |-> "golden", signal_counter |-> 0,
          current_signal |-> GoldenBase]
    ELSE IF prev_dif >= prev_dea /\ dif_value < dea_value
    THEN [signal_type |-> "death", signal_counter |-> 0,
          current_signal |-> DeathBase]
    ELSE IF st.signal_type = "golden" /\ dif_value > dea_value
    THEN [signal_type |-> "golden",
          signal_counter |-> st.signal_counter + 1,
          current_signal |-> GoldenBase + (st.signal_counter + 1)]
    ELSE IF st.signal_type = "death" /\ dif_value < dea_value
    THEN [signal_type |-> "death",
          signal_counter |-> st.signal_counter + 1,
          current_signal |-> DeathBase + (st.signal_counter + 1)]
    ELSE [signal_type |-> "none", signal_counter |-> 0, current_signal |-> 0]

\* the continuation rules are tried before the cross rules
CrossStep_ContFirst(st, prev_dif, prev_dea, dif_value, dea_value) ==
    IF st.signal_type = "golden" /\ dif_value > dea_value
    THEN [signal_type |-> "golden",
          signal_counter |-> st.signal_counter + 1,
          current_signal |-> GoldenBase + (st.signal_counter + 1)]
    ELSE IF st.signal_type = "death" /\ dif_value < dea_value
    THEN [signal_type |-> "death",
          signal_counter |-> st.signal_counter + 1,
          current_signal |-> DeathBase + (st.signal_counter + 1)]
    ELSE IF prev_dif <= prev_dea /\ dif_value > dea_value
    THEN [signal_type |-> "golden", signal_counter |-> 0,
          current_signal |-> GoldenBase]
    ELSE IF prev_dif >= prev_dea /\ dif_value < dea_value
    THEN [signal_type |-> "death", signal_counter |-> 0,
          current_signal |-> DeathBase]
    ELSE st

\* Variant of CrossStep: a cross needs DIF strictly on the other side of
\* DEA at the previous bar.
CrossStep_StrictPrev(st, prev_dif, prev_dea, dif_value, dea_value) ==
    IF prev_dif < prev_dea /\ dif_value > dea_value
    THEN [signal_type |-> "golden", signal_counter |-> 0,
          current_signal |-> GoldenBase]
    ELSE IF prev_dif > prev_dea /\ dif_value < dea_value
    THEN [signal_type |-> "death", signal_counter |-> 0,
          current_signal |-> DeathBase]
    ELSE IF st.signal_type = "golden" /\ dif_value > dea_value
    THEN [signal_type |-> "golden",
          signal_counter |-> st.signal_counter + 1,
          current_signal |-> GoldenBase + (st.signal_counter + 1)]
    ELSE IF st.signal_type = "death" /\ dif_value < dea_value
    THEN [signal_type |-> "death",
          signal_counter |-> st.signal_counter + 1,
          current_signal |-> DeathBase + (st.signal_counter + 1)]
    ELSE st

\* One pass of the loop body for a bar i > 0: st is the carried
\* [signal_type, signal_counter, current_signal].
CrossStep(st, prev_dif, prev_dea, dif_value, dea_value) ==
    IF prev_dif <= prev_dea /\ dif_value > dea_value
    THEN [signal_type |-> "golden", signal_counter |-> 0,
          current_signal |-> GoldenBase]
    ELSE IF prev_dif >= prev_dea /\ dif_value < dea_value
    THEN [signal_type |-> "death", signal_counter |-> 0,
          current_signal |-> DeathBase]
    ELSE IF st.signal_type = "golden" /\ dif_value > dea_value
    THEN [signal_type |-> "golden",
          signal_counter |-> st.signal_counter + 1,
          current_signal |-> GoldenBase + (st.signal_counter + 1)]
    ELSE IF st.signal_type = "death" /\ dif_value < dea_value
    THEN [signal_type |-> "death",
          signal_counter |-> st.signal_counter + 1,
          current_signal |-> DeathBase + (st.signal_counter + 1)]
    ELSE st

\* Variant of SignalBar: bar 0 is classified by its own DIF/DEA order.
SignalBar_FirstBar(st, dif, dea, k) ==
    IF k > 1
    THEN CrossStep(st, dif[k - 1].value, dea[k - 1].value,
                   dif[k].value, dea[k].value)
    ELSE IF dif[k].value > dea[k].value
    THEN [signal_type |-> "golden", signal_counter |-> 0,
          current_signal |-> GoldenBase]
    ELSE IF dif[k].value < dea[k].value
    THEN [signal_type |-> "death", signal_counter |-> 0,
          current_signal |-> DeathBase]
    ELSE st

\* The loop body for any bar: bar 0 (k = 1) leaves the state alone.
SignalBar(st, dif, dea, k) ==
    IF k > 1
    THEN CrossStep(st, dif[k - 1].value, dea[k - 1].value,
                   dif[k].value, dea[k].value)
    ELSE st

\* The point appended for bar k once the state is updated.
SignalPoint(dif, k, sig) == DDDataPoint(dif[k].datatime, sig)

State == [signal_type |-> signal_type, signal_counter |-> signal_counter,
          current_signal |-> current_signal]

\* if not dif_points or not dea_points: return []
signal_line_empty ==
    /\ pc = "signal_line"
    /\ dif_points = <<>> \/ dea_points = <<>>
    /\ signal_points' = <<>>
    /\ pc' = "calculate_macd"
    /\ UNCHANGED <<dif_points, dea_points, i, current_signal, signal_type,
                   signal_counter, period, trend_direction, trend_duration,
                   result, factors, combine_vars,
                   factor_vars, session_vars, trading_vars>>

\* one iteration of: for i in range(len(dif_points))
signal_line_iter ==
    /\ pc = "signal_line"
    /\ dif_points # <<>> /\ dea_points # <<>>
    /\ i < Len(dif_points)
    /\ LET st == SignalBar(State, dif_points, dea_points, i + 1)
       IN  /\ signal_type' = st.signal_type
           /\ signal_counter' = st.signal_counter
           /\ current_signal' = st.current_signal
           /\ signal_points' =
                Append(signal_points,
                       SignalPoint(dif_points, i + 1, st.current_signal))
    /\ i' = i + 1
    /\ UNCHANGED <<pc, dif_points, dea_points, period, trend_direction,
                   trend_duration, result, factors, combine_vars,
                   factor_vars, session_vars, trading_vars>>

\* return result
signal_line_return ==
    /\ pc = "signal_line"
    /\ dif_points # <<>> /\ dea_points # <<>>
    /\ i = Len(dif_points)
    /\ pc' = "calculate_macd"
    /\ UNCHANGED <<dif_points, dea_points, i, current_signal, signal_type,
                   signal_counter, signal_points, period, trend_direction,
                   trend_duration, result, factors, combine_vars,
                   factor_vars, session_vars, trading_vars>>

\* ------------------------------------------------ RegimeService.calculate_macd
\* DDService._macd: (DIF - DEA) * 2 per bar, [] when either line is empty
macd(dif, dea) ==
    IF dif = <<>> \/ dea = <<>>
    THEN <<>>
    ELSE [k \in 1..Len(dif) |->
            DDDataPoint(dif[k].datatime, (dif[k].value - dea[k].value) * 2)]

\* Variant of TrendDecode: the two range tests in the other order.
TrendDecode_Swapped(macd_custom_val) ==
    IF macd_custom_val >= GoldenBase
    THEN [trend_direction |-> 1,
          trend_duration |-> macd_custom_val - GoldenBase]
    ELSE IF macd_custom_val >= DeathBase
    THEN [trend_direction |-> -1,
          trend_duration |-> macd_custom_val - DeathBase]
    ELSE [trend_direction |-> 0, trend_duration |-> 0]

\* the decoding of one signal value
TrendDecode(macd_custom_val) ==
    IF macd_custom_val >= DeathBase
    THEN [trend_direction |-> -1,
          trend_duration |-> macd_custom_val - DeathBase]
    ELSE IF macd_custom_val >= GoldenBase
    THEN [trend_direction |-> 1,
          trend_duration |-> macd_custom_val - GoldenBase]
    ELSE [trend_direction |-> 0, trend_duration |-> 0]

\* score = direction * (0.5 * time_factor * time_decay + 0.5 * strength_factor)
\*   time_factor     = min(duration / period, 1)   = min(duration, period) / period
\*   time_decay      = 1 / (1 + 0.1 * duration)    = 10 / (10 + duration)
\*   strength_factor = min(macd_strength / 10, 1)  = min(macd_strength, 10) / 10
\* macd_strength is counted in 1/unit: strength_factor is
\* min(macd_strength, 10 * unit) / (10 * unit)
TrendScoreIn(unit, direction, duration, macd_strength, p) ==
    Frac(direction * (Min(duration, p) * 10 * 10 * unit
                      + Min(macd_strength, 10 * unit) * p * (10 + duration)),
         2 * p * (10 + duration) * 10 * unit)

TrendScore(direction, duration, macd_strength, p) ==
    TrendScoreIn(1, direction, duration, macd_strength, p)

\* macd_strength = abs(macd_points[i].value) if i < len(macd_points) else 0.0
MacdStrength(macd_points, k) ==
    IF k <= Len(macd_points) THEN Abs(macd_points[k].value) ELSE 0

\* Variant of FactorsGet: the registry is not consulted.
FactorsGet_Default(registry, name, default) == default

\* self.factors.get(name, default); the registry is a function whose domain
\* is the set of registered names
FactorsGet(registry, name, default) ==
    IF name \in DOMAIN registry THEN registry[name] ELSE default

FactorResult(name, t, v, w) ==
    [factor_name |-> name, datatime |-> t, value |-> v, weight |-> w]

\* one iteration of: for i, signal_point in enumerate(signal_points)
calculate_macd_iter ==
    /\ pc = "calculate_macd"
    /\ Len(result) < Len(signal_points)
    /\ LET k == Len(result) + 1
           d == TrendDecode(signal_points[k].value)
           s == MacdStrength(macd(dif_points, dea_points), k)
       IN  /\ trend_direction' = d.trend_direction
           /\ trend_duration' = d.trend_duration
           /\ result' = Append(result,
                FactorResult("macd", signal_points[k].datatime,
                             TrendScore(d.trend_direction, d.trend_duration,
                                        s, period),
                             FactorsGet(factors, "macd", 1)))
    /\ UNCHANGED <<pc, dif_points, dea_points, i, current_signal,
                   signal_type, signal_counter, signal_points, period,
                   factors, combine_vars,
                   factor_vars, session_vars, trading_vars>>

\* return result
calculate_macd_return ==
    /\ pc = "calculate_macd"
    /\ Len(result) = Len(signal_points)
    /\ pc' = "done"
    /\ UNCHANGED <<dif_points, dea_points, i, current_signal, signal_type,
                   signal_counter, signal_points, period, trend_direction,
                   trend_duration, result, factors, combine_vars,
                   factor_vars, session_vars, trading_vars>>

\* ------------------------------------------------------------ specification
\* calculate_macd is entered with the DIF and DEA lines of a dataset of n
\* bars; the DEA line is empty while the DIF line is not when the dataset is
\* shorter than slow_period + signal_period (DDService._dea).
Init ==
    /\ pc = "signal_line"
    /\ \E n \in 0..MaxBars :
          /\ dif_points \in SeriesOfLen(n, DifValues)
          /\ \/ dea_points \in
                  {s \in SeriesOfLen(n, DeaValues) :
                      \A k \in 1..n : s[k].datatime = dif_points[k].datatime}
             \/ dea_points = <<>>
    /\ period \in Periods
    /\ i = 0
    /\ current_signal = 0
    /\ signal_type = "none"
    /\ signal_counter = 0
    /\ signal_points = <<>>
    /\ trend_direction = 0
    /\ trend_duration = 0
    /\ result = <<>>
    /\ factors = <<>>
    /\ factor_results_list = <<>>
    /\ df = <<>>
    /\ combined = <<>>
    /\ earlier_combined = <<>>
    /\ dataset = <<>>
    /\ locals = NoCall
    /\ correlation_matrix = <<>>
    /\ captured = <<>>
    /\ strategy = NoStrategy
    /\ engine = NoEngine

Next ==
    \/ signal_line_empty
    \/ signal_line_iter
    \/ signal_line_return
    \/ calculate_macd_iter
    \/ calculate_macd_return

Spec == Init /\ [][Next]_vars

\* ---------------------------------------------- RegimeService.combine_factors
\* sum of fn[x] over the finite set S
RECURSIVE SumFn(_, _)
SumFn(fn, S) ==
    IF S = {} THEN 0
    ELSE LET x == CHOOSE y \in S : TRUE
         IN  fn[x] + SumFn(fn, S \ {x})

\* Variant of AllFactorsRow: the weight is looked up in the registry when
\* the rows are pooled.
AllFactorsRow_Lookup(fr) ==
    [datatime |-> fr.datatime, factor_name |-> fr.factor_name,
     value |-> fr.value, weight |-> FactorsGet(factors, fr.factor_name, 1)]

\* the dict appended to all_factors for one FactorResult
AllFactorsRow(fr) ==
    [datatime |-> fr.datatime, factor_name |-> fr.factor_name,
     value |-> fr.value, weight |-> fr.weight]

\* all_factors: the items of every list, in list order
RECURSIVE Pool(_)
Pool(lists) ==
    IF lists = <<>> THEN <<>>
    ELSE [k \in 1..Len(Head(lists)) |-> AllFactorsRow(Head(lists)[k])]
            \o Pool(Tail(lists))

\* Variant of FactorMask: the statistics are taken over the whole frame.
FactorMask_AllRows(rows, factor_name) == 1..Len(rows)

\* factor_mask = df['factor_name'] == factor_name
FactorMask(rows, factor_name) ==
    {k \in 1..Len(rows) : rows[k].factor_name = factor_name}

\* Z-score of a row against the rows of its factor.  With n values x_j of
\* sum S:  x - mean = (n*x - S) / n  and  std^2 = sum_j (x_j - mean)^2 / (n-1)
\* (pandas' std is the sample one, ddof = 1; it is NaN for n = 1, and
\* NaN > 1e-8 is False).  Writing D_j = n*x_j - S and Q = sum_j D_j^2:
\*     (x - mean) / std = D * sqrt((n - 1) / Q)
\* which is kept as [dev |-> D, n1 |-> n - 1, q |-> Q].  The values are
\* integers, so std > 1e-8 exactly when n >= 2 and Q > 0.
Zero == [dev |-> 0, n1 |-> 0, q |-> 1]

\* Variant of StdDegrees: the population standard deviation (ddof = 0).
StdDegrees_Population(n) == n

\* the divisor of pandas' Series.std() for n values
StdDegrees(n) == n - 1

\* factor_values.mean() and factor_values.std() of one factor, as the
\* count n, the deviations D_j and their sum of squares Q
FactorStats(rows, factor_name) ==
    LET mask == FactorMask(rows, factor_name)
        n == Cardinality(mask)
        sum == SumFn([j \in mask |-> rows[j].value], mask)
        dev == [j \in mask |-> n * rows[j].value - sum]
    IN  [n |-> n, dev |-> dev,
         q |-> SumFn([j \in mask |-> dev[j] * dev[j]], mask)]

\* Variant of ZScore: the division is not guarded (q = 0 stands for 0/0).
ZScore_Unguarded(stats, k) ==
    [dev |-> stats.dev[k], n1 |-> StdDegrees(stats.n), q |-> stats.q]

\* (factor_values - mean) / std if std > 1e-8 else 0.0, for row k
ZScore(stats, k) ==
    IF stats.n >= 2 /\ stats.q > 0
    THEN [dev |-> stats.dev[k], n1 |-> StdDegrees(stats.n), q |-> stats.q]
    ELSE Zero

\* df after the normalization loop: every row with its normalized_value
Normalize(rows) ==
    LET names == {rows[k].factor_name : k \in 1..Len(rows)}
        stats == [f \in names |-> FactorStats(rows, f)]
    IN  [k \in 1..Len(rows) |->
            [datatime |-> rows[k].datatime,
             factor_name |-> rows[k].factor_name,
             value |-> rows[k].value, weight |-> rows[k].weight,
             normalized_value |-> ZScore(stats[rows[k].factor_name], k)]]

\* the rows of one group of df.groupby('datatime')
Group(rows, datatime) == {k \in 1..Len(rows) : rows[k].datatime = datatime}

\* Variant of WeightedScore: the plain mean of the normalized values.
WeightedScore_Unweighted(rows, group) ==
    LET den == Cardinality(group)
        term(f) ==
            LET g == {k \in group : rows[k].factor_name = f}
                d == SumFn([k \in g |-> rows[k].normalized_value.dev], g)
            IN  IF d = 0 THEN Zero
                ELSE LET k == CHOOSE k \in g :
                                 rows[k].normalized_value.dev # 0
                     IN  [dev |-> d, n1 |-> rows[k].normalized_value.n1,
                          q |-> rows[k].normalized_value.q]
    IN  [kind |-> "finite", terms |-> [f \in FactorNames |-> term(f)],
         den |-> den]

\* Variant of WeightedScore: a zero weight sum is guarded and gives 0.
WeightedScore_Guarded(rows, group) ==
    LET den == SumFn([k \in group |-> rows[k].weight], group)
        term(f) ==
            LET g == {k \in group : rows[k].factor_name = f}
                d == SumFn([k \in g |->
                        rows[k].normalized_value.dev * rows[k].weight], g)
            IN  IF d = 0 \/ den = 0 THEN Zero
                ELSE LET k == CHOOSE k \in g :
                                 rows[k].normalized_value.dev # 0
                     IN  [dev |-> d, n1 |-> rows[k].normalized_value.n1,
                          q |-> rows[k].normalized_value.q]
    IN  [kind |-> "finite", terms |-> [f \in FactorNames |-> term(f)],
         den |-> IF den = 0 THEN 1 ELSE den]

\* (group['normalized_value'] * group['weight']).sum() / group['weight'].sum()
\* The numerator is kept per factor (the Z-scores of two factors are
\* multiples of different square roots): terms[f] is the sum of dev * weight
\* over the group's rows of factor f, in units of sqrt(n1 / q) of that
\* factor.  A zero weight sum makes the float division 0/0 = NaN (x/0 = inf
\* for a numerator x # 0); numpy raises nothing.
WeightedScore(rows, group) ==
    LET den == SumFn([k \in group |-> rows[k].weight], group)
        term(f) ==
            LET g == {k \in group : rows[k].factor_name = f}
                d == SumFn([k \in g |->
                        rows[k].normalized_value.dev * rows[k].weight], g)
            IN  IF d = 0 THEN Zero
                ELSE LET k == CHOOSE k \in g :
                                 rows[k].normalized_value.dev # 0
                     IN  [dev |-> d, n1 |-> rows[k].normalized_value.n1,
                          q |-> rows[k].normalized_value.q]
        terms == [f \in FactorNames |-> term(f)]
    IN  [kind |-> IF den # 0 THEN "finite"
                  ELSE IF \A f \in FactorNames : terms[f] = Zero THEN "nan"
                  ELSE "inf",
         terms |-> terms, den |-> den]

\* the group keys in ascending order (groupby sorts its keys)
RECURSIVE Ascending(_)
Ascending(S) ==
    IF S = {} THEN <<>>
    ELSE LET m == CHOOSE x \in S : \A y \in S : x <= y
         IN  <<m>> \o Ascending(S \ {m})

\* the keys of S in the order of their first row (groupby(sort=False))
RECURSIVE FirstSeen(_, _)
FirstSeen(rows, seen) ==
    IF rows = <<>> THEN <<>>
    ELSE IF Head(rows).datatime \in seen THEN FirstSeen(Tail(rows), seen)
    ELSE <<Head(rows).datatime>>
            \o FirstSeen(Tail(rows), seen \cup {Head(rows).datatime})

\* Variant of GroupScores: the groups in the order of their first row.
GroupScores_Unsorted(rows) ==
    LET keys == FirstSeen(rows, {})
    IN  [n \in 1..Len(keys) |->
            LET group == Group(rows, keys[n])
            IN  [datatime |-> keys[n],
                 composite_score |-> WeightedScore(rows, group),
                 factor_count |-> Cardinality(group)]]

\* the loop over df.groupby('datatime')
GroupScores(rows) ==
    LET keys == Ascending({rows[k].datatime : k \in 1..Len(rows)})
    IN  [n \in 1..Len(keys) |->
            LET group == Group(rows, keys[n])
            IN  [datatime |-> keys[n],
                 composite_score |-> WeightedScore(rows, group),
                 factor_count |-> Cardinality(group)]]

\* combine_factors(factor_results_list): how the call ends, the normalized
\* frame and the returned list.  pd.DataFrame([]) has no columns, so
\* df['factor_name'] raises KeyError when every list is empty.
CombineFactors(lists) ==
    IF lists = <<>>
    THEN [ends |-> "returned", df |-> <<>>, combined |-> <<>>]
    ELSE IF Pool(lists) = <<>>
    THEN [ends |-> "KeyError", df |-> <<>>, combined |-> <<>>]
    ELSE LET frame == Normalize(Pool(lists))
         IN  [ends |-> "returned", df |-> frame,
              combined |-> GroupScores(frame)]

\* the caller's call of combine_factors(factor_results_list), however it
\* ends: pc becomes "returned" or "KeyError"
combine_factors ==
    /\ pc = "caller"
    /\ LET call == CombineFactors(factor_results_list)
       IN  /\ pc' = call.ends
           /\ df' = call.df
           /\ combined' = call.combined
    /\ UNCHANGED <<factor_results_list, earlier_combined, factors,
                   macd_vars,
                   factor_vars, session_vars, trading_vars>>

\* The lists a caller passes: each is the output of one calculate_* call, so
\* its items share the factor name and the weight captured for it; their
\* timestamps and values are free.
FactorList(n) ==
    UNION {{[k \in 1..n |-> FactorResult(name, item[k][1], item[k][2], w)] :
               item \in [1..n -> Times \X FactorValues]} :
           <<name, w>> \in FactorNames \X Weights}

\* The caller assembles the argument one calculate_* output at a time, e.g.
\* combine_factors([boll_factors, cci_factors]).
ItemCount(lists) == Len(Pool(lists))

caller_append_list ==
    /\ pc = "caller"
    /\ Len(factor_results_list) < MaxLists
    /\ \E n \in 0..(MaxItems - ItemCount(factor_results_list)) :
          \E factor_results \in FactorList(n) :
              factor_results_list' =
                  Append(factor_results_list, factor_results)
    /\ UNCHANGED <<pc, df, combined, earlier_combined, factors, macd_vars,
                   factor_vars, session_vars, trading_vars>>

InitCombine ==
    /\ pc = "caller"
    /\ factor_results_list = <<>>
    /\ df = <<>>
    /\ combined = <<>>
    /\ earlier_combined = <<>>
    /\ dataset = <<>>
    /\ locals = NoCall
    /\ correlation_matrix = <<>>
    /\ captured = <<>>
    /\ strategy = NoStrategy
    /\ engine = NoEngine
    /\ factors = <<>>
    /\ dif_points = <<>>
    /\ dea_points = <<>>
    /\ period = 20
    /\ i = 0
    /\ current_signal = 0
    /\ signal_type = "none"
    /\ signal_counter = 0
    /\ signal_points = <<>>
    /\ trend_direction = 0
    /\ trend_duration = 0
    /\ result = <<>>

NextCombine ==
    \/ caller_append_list
    \/ combine_factors

SpecCombine == InitCombine /\ [][NextCombine]_vars

\* ---------------------------------------------------------------------
\* A caller that combines [A] with every item weighted w and then [A, A]
\* with every item weighted w / 2 (w even, so that w / 2 is a weight too).
HalfWeight(factor_results) ==
    [k \in 1..Len(factor_results) |->
        [factor_results[k] EXCEPT !.weight = @ \div 2]]

caller_combine_doubled ==
    /\ pc = "returned"
    /\ LET call == CombineFactors(<<HalfWeight(factor_results_list[1]),
                                    HalfWeight(factor_results_list[1])>>)
       IN  /\ earlier_combined' = combined
           /\ factor_results_list' = <<HalfWeight(factor_results_list[1]),
                                       HalfWeight(factor_results_list[1])>>
           /\ df' = call.df
           /\ combined' = call.combined
           /\ pc' = IF call.ends = "returned" THEN "returned_both"
                    ELSE call.ends
    /\ UNCHANGED <<factors, macd_vars,
                   factor_vars, session_vars, trading_vars>>

InitDup ==
    /\ pc = "caller"
    /\ \E n \in 0..MaxItems :
          \E A \in FactorList(n) :
              /\ \A k \in 1..n : A[k].weight % 2 = 0
              /\ factor_results_list = <<A>>
    /\ df = <<>>
    /\ combined = <<>>
    /\ earlier_combined = <<>>
    /\ dataset = <<>>
    /\ locals = NoCall
    /\ correlation_matrix = <<>>
    /\ captured = <<>>
    /\ strategy = NoStrategy
    /\ engine = NoEngine
    /\ factors = <<>>
    /\ dif_points = <<>>
    /\ dea_points = <<>>
    /\ period = 20
    /\ i = 0
    /\ current_signal = 0
    /\ signal_type = "none"
    /\ signal_counter = 0
    /\ signal_points = <<>>
    /\ trend_direction = 0
    /\ trend_duration = 0
    /\ result = <<>>

NextDup ==
    \/ combine_factors
    \/ caller_combine_doubled

SpecDup == InitDup /\ [][NextDup]_vars

\* ---------------------------------------------------------------------
\* A caller's session with one RegimeService: it registers weights, runs
\* calculate_* calls, and passes their results to combine_factors or to
\* calculate_factor_correlation.

\* Variant of RegisterFactor: the registry is replaced by the one entry.
RegisterFactor_Replace(registry, factor_name, weight) ==
    [n \in {factor_name} |-> weight]

\* self.factors[factor_name] = weight
RegisterFactor(registry, factor_name, weight) ==
    [n \in DOMAIN registry \cup {factor_name} |->
        IF n = factor_name THEN weight ELSE registry[n]]

\* register_factor(factor_name, weight): any name, any weight (no check)
register_factor ==
    /\ pc = "caller"
    /\ \E factor_name \in FactorNames, weight \in Weights :
          factors' = RegisterFactor(factors, factor_name, weight)
    /\ UNCHANGED <<pc, combine_vars, macd_vars, factor_vars, session_vars,
            trading_vars>>

\* A calculate_* call of the session, and the caller keeping its result: one
\* FactorResult per bar of the dataset it is given (bar k at datatime k), or
\* none; the values are free; the weight is read from the registry now.
calculate_factor ==
    /\ pc = "caller"
    /\ Len(factor_results_list) < MaxLists
    /\ \E name \in FactorNames, n \in {0} \cup Times :
          \E value \in [1..n -> FactorValues] :
              /\ factor_results_list' =
                    Append(factor_results_list,
                           [k \in 1..n |->
                               FactorResult(name, k, value[k],
                                            FactorsGet(factors, name, 1))])
              /\ captured' =
                    Append(captured,
                           [registered |-> name \in DOMAIN factors,
                            weight |-> IF name \in DOMAIN factors
                                       THEN factors[name] ELSE 0])
    /\ UNCHANGED <<pc, df, combined, earlier_combined, factors,
                   correlation_matrix, macd_vars, factor_vars, trading_vars>>

\* pd.DataFrame() and the correlation matrix of an empty frame
EmptyFrame == [columns |-> {}, corr |-> <<>>]

\* factor_dict: for every name, the values of the last non-empty list whose
\* first item carries that name
RECURSIVE FactorDict(_)
FactorDict(lists) ==
    IF lists = <<>> THEN <<>>
    ELSE LET before == FactorDict(SubSeq(lists, 1, Len(lists) - 1))
             factor_results == lists[Len(lists)]
         IN  IF factor_results = <<>> THEN before
             ELSE LET factor_name == factor_results[1].factor_name
                  IN  [n \in DOMAIN before \cup {factor_name} |->
                          IF n = factor_name
                          THEN [k \in 1..Len(factor_results) |->
                                   factor_results[k].value]
                          ELSE before[n]]

\* Pearson correlation of two columns of n rows.  With
\*   cov = n*Sxy - Sx*Sy,  vx = n*Sxx - Sx^2,  vy = n*Syy - Sy^2
\* it is cov / sqrt(vx * vy), kept as its sign and its square; it is NaN when
\* a column is constant or has one row.
Corr(x, y) ==
    LET rows == 1..Len(x)
        n == Len(x)
        sx == SumFn(x, rows)
        sy == SumFn(y, rows)
        cov == n * SumFn([k \in rows |-> x[k] * y[k]], rows) - sx * sy
        vx == n * SumFn([k \in rows |-> x[k] * x[k]], rows) - sx * sx
        vy == n * SumFn([k \in rows |-> y[k] * y[k]], rows) - sy * sy
    IN  IF vx * vy = 0 THEN [kind |-> "nan"]
        ELSE [kind |-> "finite",
              sign |-> IF cov > 0 THEN 1 ELSE IF cov < 0 THEN -1 ELSE 0,
              square |-> Frac(cov * cov, vx * vy)]

\* calculate_factor_correlation(factor_results_list): how the call ends and
\* the frame it returns.  pd.DataFrame(factor_dict) raises ValueError when
\* the columns differ in length.
CalculateFactorCorrelation(lists) ==
    IF lists = <<>> \/ Len(lists) < 2
    THEN [ends |-> "correlated", matrix |-> EmptyFrame]
    ELSE LET factor_dict == FactorDict(lists)
             names == DOMAIN factor_dict
         IN  IF names = {}
             THEN [ends |-> "correlated", matrix |-> EmptyFrame]
             ELSE IF \E f, g \in names :
                        Len(factor_dict[f]) # Len(factor_dict[g])
             THEN [ends |-> "ValueError", matrix |-> EmptyFrame]
             ELSE [ends |-> "correlated",
                   matrix |->
                     [columns |-> names,
                      corr |-> [c \in names \X names |->
                                  Corr(factor_dict[c[1]],
                                       factor_dict[c[2]])]]]

\* the caller's call of calculate_factor_correlation(factor_results_list)
calculate_factor_correlation ==
    /\ pc = "caller"
    /\ LET call == CalculateFactorCorrelation(factor_results_list)
       IN  /\ pc' = call.ends
           /\ correlation_matrix' = call.matrix
    /\ UNCHANGED <<combine_vars, factors, captured, macd_vars, factor_vars,
            trading_vars>>

NextSession ==
    \/ register_factor
    \/ calculate_factor
    \/ combine_factors
    \/ calculate_factor_correlation

\* a session starts as InitCombine says: nothing registered, nothing
\* calculated
SpecSession == InitCombine /\ [][NextSession]_vars

\* ---------------------------------------------------------------------
\* The calculate_* calls on a dataset.  What pandas computes from the closes
\* (ewm, rolling mean and std) is not derived here: the indicator values of
\* a bar are drawn with the bar, as its reading, and the series the indicator
\* services return are built from the readings by the services' own rules
\* (warm-up guards, one point per bar, NaN replaced by 0.0).  A dataset of n
\* bars repeats a pattern of PatLen readings.

\* self.slow_period, self.signal_period of the DDService calculate_macd builds
slow_period == 26
signal_period == 9

Calls == {"calculate_macd", "calculate_momentum_factor",
          "calculate_rsi_factor", "calculate_cci_factor",
          "calculate_boll_factor", "calculate_volatility_factor"}

\* the period argument of the calls: a short one and one no dataset exceeds
FactorPeriods == {2, MaxBars}

\* dataset lengths: every short one, and for calculate_macd the ones around
\* its two warm-up guards
DatasetLens(call) ==
    IF call = "calculate_macd"
    THEN {0, 1, slow_period - 1, slow_period,
          slow_period + signal_period - 1, slow_period + signal_period,
          slow_period + signal_period + 1}
    ELSE 0..MaxBars

Closes == {10, 20}
RsiValues == {0, 30, 40, 70, 85, 100}
CciValues == {-400, -200, -100, 0, 100, 300}
\* (volatility - vol_mean) / vol_std of a bar
VolValues == {-2, 0, 1}
\* Bollinger bands mid -+ half (half = std_dev * std), and close - mid; with
\* half = 10 the offsets put %B at -0.2, -0.05, 0, 0.1, 0.2, 0.5, 0.8, 0.9,
\* 1, 1.05 and 1.2
Bands == {[mid |-> 100, half |-> 10], [mid |-> 200, half |-> 10],
          [mid |-> 400, half |-> 10], [mid |-> 10, half |-> 10],
          [mid |-> 100, half |-> 0]}
Offsets == {-14, -11, -10, -8, -6, 0, 6, 8, 10, 11, 14}

\* the readings of one bar, by call
BarReadings(call) ==
    IF call = "calculate_macd"
    THEN {{[close |-> c, dif |-> x, dea |-> y] :
              c \in Closes, x \in DifValues, y \in DeaValues}}
    ELSE IF call = "calculate_rsi_factor"
    THEN {{[close |-> c, rsi |-> v] : c \in Closes, v \in RsiValues}}
    ELSE IF call = "calculate_cci_factor"
    THEN {{[close |-> c, cci |-> v] : c \in Closes, v \in CciValues}}
    ELSE IF call = "calculate_volatility_factor"
    THEN {{[close |-> c, z |-> v, vol_std_positive |-> b] :
              c \in Closes, v \in VolValues} : b \in BOOLEAN}
    ELSE IF call = "calculate_boll_factor"
    THEN {{[close |-> band.mid + d, mid |-> band.mid,
            upper |-> band.mid + band.half,
            lower |-> band.mid - band.half] :
              d \in {o \in Offsets :
                        /\ band.mid + o > 0
                        /\ band.half = 0 => o = 0}} : band \in Bands}
    ELSE {{[close |-> c] : c \in Closes}}

\* the patterns of readings a dataset may repeat
Patterns(call) == UNION {[1..PatLen -> R] : R \in BarReadings(call)}

\* the reading of bar k
ReadingAt(readings, k) == readings[((k - 1) % Len(readings)) + 1]

\* CommonStockDataset(datatime, close)
Bar(t, c) == [datatime |-> t, close |-> c]

\* the state before signal_line's loop
NoSignal == [signal_type |-> "none", signal_counter |-> 0,
             current_signal |-> 0]

\* DDService._dif / _dea: [] under their warm-up, else one point per bar
Dif(bars, readings) ==
    IF bars = <<>> \/ Len(bars) < slow_period THEN <<>>
    ELSE [k \in 1..Len(bars) |->
            DDDataPoint(bars[k].datatime, ReadingAt(readings, k).dif)]

Dea(bars, readings) ==
    IF bars = <<>> \/ Len(bars) < slow_period + signal_period THEN <<>>
    ELSE IF Dif(bars, readings) = <<>> THEN <<>>
    ELSE [k \in 1..Len(bars) |->
            DDDataPoint(bars[k].datatime, ReadingAt(readings, k).dea)]

\* DDService.signal_line as a whole: the points of the bars k, k+1, ...
\* when st is the state after bar k - 1
RECURSIVE SignalLineFrom(_, _, _, _)
SignalLineFrom(st, dif, dea, k) ==
    IF k > Len(dif) THEN <<>>
    ELSE LET next == SignalBar(st, dif, dea, k)
         IN  <<SignalPoint(dif, k, next.current_signal)>>
                \o SignalLineFrom(next, dif, dea, k + 1)

SignalLine(dif, dea) ==
    IF dif = <<>> \/ dea = <<>> THEN <<>>
    ELSE SignalLineFrom(NoSignal, dif, dea, 1)

\* RegimeService.calculate_macd as a whole (the loop of calculate_macd_iter)
CalculateMacd(unit, signal, macd_points, p, registry) ==
    [k \in 1..Len(signal) |->
        LET d == TrendDecode(signal[k].value)
        IN  FactorResult("macd", signal[k].datatime,
                         TrendScoreIn(unit, d.trend_direction,
                                      d.trend_duration,
                                      MacdStrength(macd_points, k), p),
                         FactorsGet(registry, "macd", 1))]

calculate_macd ==
    /\ pc = "factor"
    /\ locals.call = "calculate_macd"
    /\ LET dea == Dea(dataset, locals.readings)
           dif == Dif(dataset, locals.readings)
           signal == SignalLine(dif, dea)
       IN  /\ dea_points' = dea
           /\ dif_points' = dif
           /\ signal_points' = signal
           /\ result' = CalculateMacd(Unit(locals), signal, macd(dif, dea),
                                      period, factors)
    /\ pc' = "calculated"
    /\ UNCHANGED <<i, current_signal, signal_type, signal_counter, period,
                   trend_direction, trend_duration, factors, combine_vars,
                   factor_vars, session_vars, trading_vars>>

\* Variant of RsiWarmup: the guard of the other indicators.
RsiWarmup_Period(p) == p

\* RSIService._calculate_rsi returns [] for len(dataset) < period + 1
RsiWarmup(p) == p + 1

\* the series an indicator service returns: [] under the warm-up, else one
\* point per bar with the bar's datatime and reading
IndicatorPoints(bars, readings, warmup, field) ==
    IF bars = <<>> \/ Len(bars) < warmup THEN <<>>
    ELSE [k \in 1..Len(bars) |->
            DDDataPoint(bars[k].datatime, ReadingAt(readings, k)[field])]

\* RSIService._calculate_rsi, CCIService._calculate_cci
CalculateRsi(bars, readings, p) ==
    IndicatorPoints(bars, readings, RsiWarmup(p), "rsi")
CalculateCci(bars, readings, p) ==
    IndicatorPoints(bars, readings, p, "cci")

\* the score of one RSI value
RsiScore(rsi_value) ==
    IF rsi_value >= 70 THEN Frac(-Min(rsi_value - 70, 30), 30)
    ELSE IF rsi_value <= 30 THEN Frac(Min(30 - rsi_value, 30), 30)
    ELSE Frac(50 - rsi_value, 20)

\* the score of one CCI value
CciScore(cci_value) ==
    IF cci_value > 100 THEN Frac(-Min(cci_value - 100, 200), 200)
    ELSE IF cci_value < -100 THEN Frac(Min(Abs(cci_value) - 100, 200), 200)
    ELSE Frac(-cci_value, 200)

calculate_rsi_factor ==
    /\ pc = "factor"
    /\ locals.call = "calculate_rsi_factor"
    /\ LET rsi_points == CalculateRsi(dataset, locals.readings, period)
       IN  /\ locals' = [rsi_points |-> rsi_points] @@ locals
           /\ result' = [k \in 1..Len(rsi_points) |->
                            FactorResult("rsi", rsi_points[k].datatime,
                                         RsiScore(rsi_points[k].value),
                                         FactorsGet(factors, "rsi", 1))]
    /\ pc' = "calculated"
    /\ UNCHANGED <<dif_points, dea_points, i, current_signal, signal_type,
                   signal_counter, signal_points, period, trend_direction,
                   trend_duration, factors, combine_vars, dataset,
                   session_vars, trading_vars>>

calculate_cci_factor ==
    /\ pc = "factor"
    /\ locals.call = "calculate_cci_factor"
    /\ LET cci_points == CalculateCci(dataset, locals.readings, period)
       IN  /\ locals' = [cci_points |-> cci_points] @@ locals
           /\ result' = [k \in 1..Len(cci_points) |->
                            FactorResult("cci", cci_points[k].datatime,
                                         CciScore(cci_points[k].value),
                                         FactorsGet(factors, "cci", 1))]
    /\ pc' = "calculated"
    /\ UNCHANGED <<dif_points, dea_points, i, current_signal, signal_type,
                   signal_counter, signal_points, period, trend_direction,
                   trend_duration, factors, combine_vars, dataset,
                   session_vars, trading_vars>>

\* momentum = df['close'].pct_change(periods=period) * 100, NaN (the first
\* period bars) replaced by 0.0
Momentum(bars, k, p) ==
    IF k <= p THEN Frac(0, 1)
    ELSE Frac(100 * (bars[k].close - bars[k - p].close), bars[k - p].close)

calculate_momentum_factor ==
    /\ pc = "factor"
    /\ locals.call = "calculate_momentum_factor"
    /\ result' =
          IF dataset = <<>> \/ Len(dataset) < period THEN <<>>
          ELSE [k \in 1..Len(dataset) |->
                  FactorResult("momentum", dataset[k].datatime,
                               Momentum(dataset, k, period),
                               FactorsGet(factors, "momentum", 1))]
    /\ pc' = "calculated"
    /\ UNCHANGED <<dif_points, dea_points, i, current_signal, signal_type,
                   signal_counter, signal_points, period, trend_direction,
                   trend_duration, factors, combine_vars, factor_vars,
                   session_vars, trading_vars>>

\* score = -(vol_value - vol_mean) / vol_std clamped to [-1, 1] when
\* vol_std > 1e-8, else 0.0
VolatilityScore(reading) ==
    IF reading.vol_std_positive
    THEN Frac(IF -reading.z > 1 THEN 1
              ELSE IF -reading.z < -1 THEN -1 ELSE -reading.z, 1)
    ELSE Frac(0, 1)

calculate_volatility_factor ==
    /\ pc = "factor"
    /\ locals.call = "calculate_volatility_factor"
    /\ result' =
          IF dataset = <<>> \/ Len(dataset) < period THEN <<>>
          ELSE [k \in 1..Len(dataset) |->
                  FactorResult("volatility", dataset[k].datatime,
                               VolatilityScore(ReadingAt(locals.readings, k)),
                               FactorsGet(factors, "volatility", 1))]
    /\ pc' = "calculated"
    /\ UNCHANGED <<dif_points, dea_points, i, current_signal, signal_type,
                   signal_counter, signal_points, period, trend_direction,
                   trend_duration, factors, combine_vars, factor_vars,
                   session_vars, trading_vars>>

\* BOLLService._upper / _mid / _lower: [] under the warm-up, else one point
\* per bar.  The rolling std of the first bar is NaN (one value), so its
\* upper and lower values are replaced by 0.0 and its mid is the close.
BollPoints(unit, bars, readings, p, field) ==
    IF bars = <<>> \/ Len(bars) < p THEN <<>>
    ELSE [k \in 1..Len(bars) |->
            DDDataPoint(bars[k].datatime,
                        IF k > 1 THEN ReadingAt(readings, k)[field]
                        ELSE IF field = "mid" THEN bars[k].close * unit
                        ELSE 0)]

\* Variant of ZoneScore: the breakout zones are not capped at 1.
ZoneScore_NoCap(P, W) ==
    IF P > W THEN Frac(-(10 * P - 6 * W), 5 * W)
    ELSE IF 5 * P > 4 * W THEN Frac(7 * W - 15 * P, 10 * W)
    ELSE IF P < 0 THEN Frac(-10 * P + 4 * W, 5 * W)
    ELSE IF 5 * P < W THEN Frac(8 * W - 15 * P, 10 * W)
    ELSE Frac(W - 2 * P, 2 * W)

\* The piecewise score of percent_b = P / W (P = close - lower, W = upper -
\* lower > 0), over the denominator of each branch:
\*   %B > 1.0 : -min((%B - 1.0) * 2 + 0.8, 1.0) = -min(10P - 6W, 5W) / 5W
\*   %B > 0.8 : -0.5 - (%B - 0.8) * 1.5         = (7W - 15P) / 10W
\*   %B < 0.0 : min(|%B| * 2 + 0.8, 1.0)        = min(-10P + 4W, 5W) / 5W
\*   %B < 0.2 : 0.5 + (0.2 - %B) * 1.5          = (8W - 15P) / 10W
\*   else     : 0.5 - %B                        = (W - 2P) / 2W
ZoneScore(P, W) ==
    IF P > W THEN Frac(-Min(10 * P - 6 * W, 5 * W), 5 * W)
    ELSE IF 5 * P > 4 * W THEN Frac(7 * W - 15 * P, 10 * W)
    ELSE IF P < 0 THEN Frac(Min(-10 * P + 4 * W, 5 * W), 5 * W)
    ELSE IF 5 * P < W THEN Frac(8 * W - 15 * P, 10 * W)
    ELSE Frac(W - 2 * P, 2 * W)

\* volatility_adjustment = min(bandwidth / 0.1, 1.5) with
\* bandwidth = (upper - lower) / mid if mid > 0 else 0
VolatilityAdjustment(upper, mid, lower) ==
    IF mid > 0
    THEN IF 20 * (upper - lower) <= 3 * mid
         THEN Frac(10 * (upper - lower), mid) ELSE Frac(3, 2)
    ELSE Frac(0, 1)

\* the score of one bar
BollScore(close_price, upper, mid, lower) ==
    IF upper = lower \/ upper = 0 \/ lower = 0 THEN Frac(0, 1)
    ELSE LET score == ZoneScore(close_price - lower, upper - lower)
             volatility_adjustment == VolatilityAdjustment(upper, mid, lower)
         IN  Frac(score.num * volatility_adjustment.num,
                  score.den * volatility_adjustment.den)

calculate_boll_factor ==
    /\ pc = "factor"
    /\ locals.call = "calculate_boll_factor"
    /\ LET upper_points == BollPoints(Unit(locals), dataset, locals.readings,
                                      period, "upper")
           mid_points == BollPoints(Unit(locals), dataset, locals.readings,
                                    period, "mid")
           lower_points == BollPoints(Unit(locals), dataset, locals.readings,
                                      period, "lower")
       IN  /\ locals' = [upper_points |-> upper_points,
                         mid_points |-> mid_points,
                         lower_points |-> lower_points] @@ locals
           /\ result' =
                 IF dataset = <<>> \/ Len(dataset) # Len(upper_points)
                 THEN <<>>
                 ELSE [k \in 1..Len(dataset) |->
                         FactorResult("boll", dataset[k].datatime,
                                      BollScore(dataset[k].close
                                                  * Unit(locals),
                                                upper_points[k].value,
                                                mid_points[k].value,
                                                lower_points[k].value),
                                      FactorsGet(factors, "boll", 1))]
    /\ pc' = "calculated"
    /\ UNCHANGED <<dif_points, dea_points, i, current_signal, signal_type,
                   signal_counter, signal_points, period, trend_direction,
                   trend_duration, factors, combine_vars, dataset,
                   session_vars, trading_vars>>

\* A calculate_* call is entered with a dataset of n bars, one bar per time
\* step, and a period.
InitFactors ==
    /\ pc = "factor"
    /\ \E call \in Calls :
          \E n \in DatasetLens(call), readings \in Patterns(call),
             t0 \in StartTimes :
              /\ locals = [call |-> call, readings |-> readings]
              /\ dataset = [k \in 1..n |->
                               Bar(t0 + k - 1, ReadingAt(readings, k).close)]
    /\ period \in FactorPeriods
    /\ dif_points = <<>>
    /\ dea_points = <<>>
    /\ i = 0
    /\ current_signal = 0
    /\ signal_type = "none"
    /\ signal_counter = 0
    /\ signal_points = <<>>
    /\ trend_direction = 0
    /\ trend_duration = 0
    /\ result = <<>>
    /\ factors = <<>>
    /\ factor_results_list = <<>>
    /\ df = <<>>
    /\ combined = <<>>
    /\ earlier_combined = <<>>
    /\ correlation_matrix = <<>>
    /\ captured = <<>>
    /\ strategy = NoStrategy
    /\ engine = NoEngine

NextFactors ==
    \/ calculate_macd
    \/ calculate_momentum_factor
    \/ calculate_rsi_factor
    \/ calculate_cci_factor
    \/ calculate_boll_factor
    \/ calculate_volatility_factor

SpecFactors == InitFactors /\ [][NextFactors]_vars

\* ------------------------------------------------- the indicator services
\* The series-returning methods of service/indicators, each called on a
\* dataset with a period.  The values of DIF, DEA, RSI, CCI, the Bollinger
\* bands, K and ASI are readings of the bars, as above; the moving average,
\* BIAS, D, J and ASIT are computed from the closes and from K and ASI.

IndicatorCalls == {"_calculate_ma_line", "_dif", "_dea", "_macd",
                   "_calculate_rsi", "_calculate_cci", "_mid", "_upper",
                   "_lower", "_k", "_d", "_j", "_calculate_bias", "_asi",
                   "_asit"}

KValues == {0, 30, 90}
AsiValues == {-3, 0, 6}

\* the readings of one bar, by indicator call
IndicatorReadings(call) ==
    IF call \in {"_dif", "_dea", "_macd"} THEN BarReadings("calculate_macd")
    ELSE IF call = "_calculate_rsi" THEN BarReadings("calculate_rsi_factor")
    ELSE IF call = "_calculate_cci" THEN BarReadings("calculate_cci_factor")
    ELSE IF call \in {"_mid", "_upper", "_lower"}
    THEN BarReadings("calculate_boll_factor")
    ELSE IF call \in {"_k", "_d", "_j"}
    THEN {{[close |-> c, k |-> v] : c \in Closes, v \in KValues}}
    ELSE IF call \in {"_asi", "_asit"}
    THEN {{[close |-> c, asi |-> v] : c \in Closes, v \in AsiValues}}
    ELSE {{[close |-> c] : c \in Closes}}

IndicatorPatterns(call) ==
    UNION {[1..PatLen -> R] : R \in IndicatorReadings(call)}

IndicatorLens(call) ==
    IF call \in {"_dif", "_dea", "_macd"} THEN DatasetLens("calculate_macd")
    ELSE 0..MaxBars

\* the sum of the values of fn over the rolling window of size p ending at
\* k, and the number of values in it
Window(k, p) == {j \in 1..k : j > k - p}
RollingSum(fn, k, p) == SumFn(fn, Window(k, p))

\* MAService._calculate_ma_line: rolling(window=period, min_periods=period)
\* leaves the first period - 1 rows NaN and dropna removes them, so the
\* line starts at bar period
CalculateMaLine(bars, p) ==
    IF bars = <<>> \/ Len(bars) < p THEN <<>>
    ELSE [j \in 1..(Len(bars) - p + 1) |->
            DDDataPoint(bars[j + p - 1].datatime,
                        Frac(RollingSum([k \in 1..Len(bars) |->
                                            bars[k].close], j + p - 1, p),
                             p))]

\* BIASService._calculate_bias: ma = rolling(window=period, min_periods=1)
\* mean, bias = (close - ma) / ma * 100, NaN replaced by 0.0
CalculateBias(bars, p) ==
    IF bars = <<>> \/ Len(bars) < p THEN <<>>
    ELSE [k \in 1..Len(bars) |->
            LET count == Cardinality(Window(k, p))
                sum == RollingSum([j \in 1..Len(bars) |-> bars[j].close],
                                  k, p)
            IN  DDDataPoint(bars[k].datatime,
                            IF sum > 0
                            THEN Frac(100 * (bars[k].close * count - sum),
                                      sum)
                            ELSE Frac(0, 1))]

\* KDJService._k: rsv is NaN before bar n (rolling min_periods=n), so is
\* its ewm, and NaN is replaced by 0.0
K(bars, readings, n) ==
    IF bars = <<>> \/ Len(bars) < n THEN <<>>
    ELSE [k \in 1..Len(bars) |->
            DDDataPoint(bars[k].datatime,
                        IF k < n THEN 0 ELSE ReadingAt(readings, k).k)]

\* ewm(alpha=1/m, adjust=False).mean() of a series of integers: the first
\* value, then e + (v - e) / m
RECURSIVE Ewm(_, _, _)
Ewm(values, m, k) ==
    IF k = 1 THEN Frac(values[1], 1)
    ELSE LET e == Ewm(values, m, k - 1)
         IN  Frac(e.num * (m - 1) + values[k] * e.den, e.den * m)

\* self.m2 of KDJService
m2 == 3

\* KDJService._d
D(bars, readings, n) ==
    IF bars = <<>> \/ Len(bars) < n THEN <<>>
    ELSE LET k_points == K(bars, readings, n)
         IN  IF k_points = <<>> THEN <<>>
             ELSE [k \in 1..Len(bars) |->
                     DDDataPoint(bars[k].datatime,
                                 Ewm([j \in 1..Len(k_points) |->
                                         k_points[j].value], m2, k))]

\* KDJService._j: 3 * K - 2 * D over the K points
J(bars, readings, n) ==
    IF bars = <<>> \/ Len(bars) < n THEN <<>>
    ELSE LET k_points == K(bars, readings, n)
             d_points == D(bars, readings, n)
         IN  IF k_points = <<>> \/ d_points = <<>> THEN <<>>
             ELSE [k \in 1..Len(k_points) |->
                     DDDataPoint(k_points[k].datatime,
                                 Frac(3 * k_points[k].value
                                        * d_points[k].value.den
                                      - 2 * d_points[k].value.num,
                                      d_points[k].value.den))]

\* ASIService._asi: [] for fewer than 2 bars, else one point per bar; the
\* swing index of the first bar is 0.0
Asi(bars, readings) ==
    IF bars = <<>> \/ Len(bars) < 2 THEN <<>>
    ELSE [k \in 1..Len(bars) |->
            DDDataPoint(bars[k].datatime,
                        IF k = 1 THEN 0 ELSE ReadingAt(readings, k).asi)]

\* ASIService._asit: rolling(window=asit_period, min_periods=1) mean of ASI
Asit(bars, readings, asit_period) ==
    IF bars = <<>> \/ Len(bars) < 2 THEN <<>>
    ELSE LET asi_points == Asi(bars, readings)
         IN  IF asi_points = <<>> THEN <<>>
             ELSE [k \in 1..Len(asi_points) |->
                     DDDataPoint(asi_points[k].datatime,
                                 Frac(RollingSum([j \in 1..Len(asi_points) |->
                                                     asi_points[j].value],
                                                 k, asit_period),
                                      Cardinality(Window(k, asit_period))))]

\* DDService._macd: [] under the warm-up of DEA, else (DIF - DEA) * 2
Macd(bars, readings) ==
    IF bars = <<>> \/ Len(bars) < slow_period + signal_period THEN <<>>
    ELSE macd(Dif(bars, readings), Dea(bars, readings))

\* what no indicator method changes
indicator_frame == <<dif_points, dea_points, i, current_signal, signal_type,
                     signal_counter, signal_points, period, trend_direction,
                     trend_duration, factors, combine_vars, factor_vars,
                     session_vars, trading_vars>>

_calculate_ma_line ==
    /\ pc = "indicator"
    /\ locals.call = "_calculate_ma_line"
    /\ result' = CalculateMaLine(dataset, period)
    /\ pc' = "returned"
    /\ UNCHANGED indicator_frame

_dif ==
    /\ pc = "indicator"
    /\ locals.call = "_dif"
    /\ result' = Dif(dataset, locals.readings)
    /\ pc' = "returned"
    /\ UNCHANGED indicator_frame

_dea ==
    /\ pc = "indicator"
    /\ locals.call = "_dea"
    /\ result' = Dea(dataset, locals.readings)
    /\ pc' = "returned"
    /\ UNCHANGED indicator_frame

_macd ==
    /\ pc = "indicator"
    /\ locals.call = "_macd"
    /\ result' = Macd(dataset, locals.readings)
    /\ pc' = "returned"
    /\ UNCHANGED indicator_frame

_calculate_rsi ==
    /\ pc = "indicator"
    /\ locals.call = "_calculate_rsi"
    /\ result' = CalculateRsi(dataset, locals.readings, period)
    /\ pc' = "returned"
    /\ UNCHANGED indicator_frame

_calculate_cci ==
    /\ pc = "indicator"
    /\ locals.call = "_calculate_cci"
    /\ result' = CalculateCci(dataset, locals.readings, period)
    /\ pc' = "returned"
    /\ UNCHANGED indicator_frame

_mid ==
    /\ pc = "indicator"
    /\ locals.call = "_mid"
    /\ result' = BollPoints(Unit(locals), dataset, locals.readings, period,
                            "mid")
    /\ pc' = "returned"
    /\ UNCHANGED indicator_frame

_upper ==
    /\ pc = "indicator"
    /\ locals.call = "_upper"
    /\ result' = BollPoints(Unit(locals), dataset, locals.readings, period,
                            "upper")
    /\ pc' = "returned"
    /\ UNCHANGED indicator_frame

_lower ==
    /\ pc = "indicator"
    /\ locals.call = "_lower"
    /\ result' = BollPoints(Unit(locals), dataset, locals.readings, period,
                            "lower")
    /\ pc' = "returned"
    /\ UNCHANGED indicator_frame

_k ==
    /\ pc = "indicator"
    /\ locals.call = "_k"
    /\ result' = K(dataset, locals.readings, period)
    /\ pc' = "returned"
    /\ UNCHANGED indicator_frame

_d ==
    /\ pc = "indicator"
    /\ locals.call = "_d"
    /\ result' = D(dataset, locals.readings, period)
    /\ pc' = "returned"
    /\ UNCHANGED indicator_frame

_j ==
    /\ pc = "indicator"
    /\ locals.call = "_j"
    /\ result' = J(dataset, locals.readings, period)
    /\ pc' = "returned"
    /\ UNCHANGED indicator_frame

_calculate_bias ==
    /\ pc = "indicator"
    /\ locals.call = "_calculate_bias"
    /\ result' = CalculateBias(dataset, period)
    /\ pc' = "returned"
    /\ UNCHANGED indicator_frame

_asi ==
    /\ pc = "indicator"
    /\ locals.call = "_asi"
    /\ result' = Asi(dataset, locals.readings)
    /\ pc' = "returned"
    /\ UNCHANGED indicator_frame

_asit ==
    /\ pc = "indicator"
    /\ locals.call = "_asit"
    /\ result' = Asit(dataset, locals.readings, period)
    /\ pc' = "returned"
    /\ UNCHANGED indicator_frame

\* An indicator method is called with a dataset of n bars, one bar per time
\* step, and its period.
InitIndicators ==
    /\ pc = "indicator"
    /\ \E call \in IndicatorCalls :
          \E n \in IndicatorLens(call), readings \in IndicatorPatterns(call),
             t0 \in StartTimes :
              /\ locals = [call |-> call, readings |-> readings]
              /\ dataset = [k \in 1..n |->
                               Bar(t0 + k - 1, ReadingAt(readings, k).close)]
    /\ period \in FactorPeriods
    /\ dif_points = <<>>
    /\ dea_points = <<>>
    /\ i = 0
    /\ current_signal = 0
    /\ signal_type = "none"
    /\ signal_counter = 0
    /\ signal_points = <<>>
    /\ trend_direction = 0
    /\ trend_duration = 0
    /\ result = <<>>
    /\ factors = <<>>
    /\ factor_results_list = <<>>
    /\ df = <<>>
    /\ combined = <<>>
    /\ earlier_combined = <<>>
    /\ correlation_matrix = <<>>
    /\ captured = <<>>
    /\ strategy = NoStrategy
    /\ engine = NoEngine

NextIndicators ==
    \/ _calculate_ma_line
    \/ _dif
    \/ _dea
    \/ _macd
    \/ _calculate_rsi
    \/ _calculate_cci
    \/ _mid
    \/ _upper
    \/ _lower
    \/ _k
    \/ _d
    \/ _j
    \/ _calculate_bias
    \/ _asi
    \/ _asit

SpecIndicators == InitIndicators /\ [][NextIndicators]_vars

\* -------------------------------------------------- end-to-end scenarios
\* The calculate_* calls on datasets whose closes form a ramp: start,
\* start + slope, start + 2 * slope, ...  Here the readings of the bars are
\* not drawn but computed from the closes as the indicator services compute
\* them with pandas.  Floating point is replaced by fixed point: prices and
\* indicator values are counted in thousandths, rounded down.

Thousandths == 1000

\* self.fast_period of DDService; std_dev of calculate_boll_factor
fast_period == 12
std_dev == 2

ScenarioCalls == {"calculate_macd", "calculate_rsi_factor",
                  "calculate_boll_factor", "calculate_volatility_factor"}
ScenarioStarts == {100, 110}
ScenarioSlopes == {-1, 0, 1}
\* dataset lengths around the warm-up of the calls, and the 30 and 50 bars
\* of the documented scenarios
ScenarioLens == {14, 15, 19, 20, 30, 34, 35, 50}

\* the default period of each call
DefaultPeriod(call) == IF call = "calculate_rsi_factor" THEN 14 ELSE 20

Ramp(start, slope, n) == [k \in 1..n |-> start + slope * (k - 1)]

\* ewm(span=span, adjust=False).mean() of the first k values: the first
\* value, then e + alpha * (v - e) with alpha = 2 / (span + 1)
RECURSIVE EwmUpTo(_, _, _)
EwmUpTo(values, span, k) ==
    IF k = 0 THEN <<>>
    ELSE IF k = 1 THEN <<values[1]>>
    ELSE LET prev == EwmUpTo(values, span, k - 1)
         IN  Append(prev, prev[k - 1]
                            + (2 * (values[k] - prev[k - 1])) \div (span + 1))

EwmSpan(values, span) == EwmUpTo(values, span, Len(values))

\* DDService._dif: fast EMA - slow EMA of the closes
DifLine(closes) ==
    LET scaled == [k \in 1..Len(closes) |-> closes[k] * Thousandths]
        fast_ema == EwmSpan(scaled, fast_period)
        slow_ema == EwmSpan(scaled, slow_period)
    IN  [k \in 1..Len(closes) |-> fast_ema[k] - slow_ema[k]]

\* DDService._dea: EMA of DIF
DeaLine(closes) == EwmSpan(DifLine(closes), signal_period)

\* RSIService._calculate_rsi: price_change = diff() is NaN at the first
\* bar, where neither x > 0 nor x < 0 holds, so gains and losses start at 0
RsiLine(closes, p) ==
    LET change(k) == IF k = 1 THEN 0 ELSE closes[k] - closes[k - 1]
        gains == [k \in 1..Len(closes) |->
                     IF change(k) > 0 THEN change(k) * Thousandths ELSE 0]
        losses == [k \in 1..Len(closes) |->
                      IF change(k) < 0 THEN -change(k) * Thousandths ELSE 0]
        avg_gains == EwmSpan(gains, p)
        avg_losses == EwmSpan(losses, p)
    IN  [k \in 1..Len(closes) |->
            IF avg_losses[k] = 0 THEN 100
            ELSE (100 * avg_gains[k]) \div (avg_gains[k] + avg_losses[k])]

\* the largest s in lo..hi with s * s <= x
RECURSIVE IsqrtIn(_, _, _)
IsqrtIn(x, lo, hi) ==
    IF lo = hi THEN lo
    ELSE LET m == (lo + hi + 1) \div 2
         IN  IF m * m <= x THEN IsqrtIn(x, m, hi) ELSE IsqrtIn(x, lo, m - 1)

Isqrt(x) == IsqrtIn(x, 0, Min(x, 46340))

\* rolling(window=p, min_periods=1).mean() of the closes at bar k
RollingMean(closes, k, p) ==
    (Thousandths * RollingSum(closes, k, p)) \div Cardinality(Window(k, p))

\* rolling(window=p, min_periods=1).std() of the closes at bar k >= 2: the
\* sample standard deviation sqrt((n * sum(x^2) - sum(x)^2) / (n * (n - 1)))
RollingStd(closes, k, p) ==
    LET n == Cardinality(Window(k, p))
        sum == RollingSum(closes, k, p)
        squares == RollingSum([j \in 1..Len(closes) |->
                                  closes[j] * closes[j]], k, p)
        num == n * squares - sum * sum
        den == n * (n - 1)
    IN  Isqrt(Thousandths * Thousandths * (num \div den)
              + (Thousandths * Thousandths * (num % den)) \div den)

\* Variant of UpperBand: one standard deviation.
UpperBand_OneStd(mid, std) == mid + std

\* upper = mid + self.std_dev * std, lower = mid - self.std_dev * std
UpperBand(mid, std) == mid + std_dev * std
LowerBand(mid, std) == mid - std_dev * std

\* the readings of the bars of a dataset with these closes, as call's
\* indicator service computes them; the first bar has no standard deviation
ScenarioReadings(call, closes) ==
    [k \in 1..Len(closes) |->
        IF call = "calculate_macd"
        THEN [close |-> closes[k], dif |-> DifLine(closes)[k],
              dea |-> DeaLine(closes)[k]]
        ELSE IF call = "calculate_rsi_factor"
        THEN [close |-> closes[k],
              rsi |-> RsiLine(closes, DefaultPeriod(call))[k]]
        ELSE IF call = "calculate_boll_factor"
        THEN LET mid == RollingMean(closes, k, DefaultPeriod(call))
                 std == IF k = 1 THEN 0
                        ELSE RollingStd(closes, k, DefaultPeriod(call))
             IN  [close |-> closes[k], mid |-> mid,
                  upper |-> UpperBand(mid, std),
                  lower |-> LowerBand(mid, std)]
        \* calculate_volatility_factor is followed on flat closes only:
        \* every return is 0, so is every rolling std and vol_std
        ELSE [close |-> closes[k], z |-> 0, vol_std_positive |-> FALSE]]

InitScenario ==
    /\ pc = "factor"
    /\ \E call \in ScenarioCalls, start \in ScenarioStarts,
          slope \in ScenarioSlopes, n \in ScenarioLens, t0 \in StartTimes :
          /\ call = "calculate_volatility_factor" => slope = 0
          /\ locals = [call |-> call, unit |-> Thousandths,
                       readings |-> ScenarioReadings(call,
                                                     Ramp(start, slope, n))]
          /\ dataset = [k \in 1..n |->
                           Bar(t0 + k - 1, Ramp(start, slope, n)[k])]
          /\ period = DefaultPeriod(call)
    /\ dif_points = <<>>
    /\ dea_points = <<>>
    /\ i = 0
    /\ current_signal = 0
    /\ signal_type = "none"
    /\ signal_counter = 0
    /\ signal_points = <<>>
    /\ trend_direction = 0
    /\ trend_duration = 0
    /\ result = <<>>
    /\ factors = <<>>
    /\ factor_results_list = <<>>
    /\ df = <<>>
    /\ combined = <<>>
    /\ earlier_combined = <<>>
    /\ correlation_matrix = <<>>
    /\ captured = <<>>
    /\ strategy = NoStrategy
    /\ engine = NoEngine

NextScenario ==
    \/ calculate_macd
    \/ calculate_rsi_factor
    \/ calculate_boll_factor
    \/ calculate_volatility_factor

SpecScenario == InitScenario /\ [][NextScenario]_vars

\* ------------------------------------------------------------- long runs
\* One bar of signal_line and its decoding by calculate_macd, entered with
\* the state the loop carries after a run: Golden(n) or Death(n) is the
\* state after bar 0, a cross and n bars that continued it.  The DIF and DEA
\* lines are not kept, only their values at the previous and at the current
\* bar (the loop's prev_dif, prev_dea, dif_value, dea_value).

\* the counters carried: short runs, and runs about GoldenBase bars long
RunCounters == (0..2) \cup {DeathBase - GoldenBase - 2,
                            DeathBase - GoldenBase - 1,
                            DeathBase - GoldenBase}

\* the state carried after a run of the given type and counter
Carried(type, n) ==
    [signal_type |-> type, signal_counter |-> n,
     current_signal |-> (IF type = "golden" THEN GoldenBase ELSE DeathBase)
                         + n]

\* the loop body of signal_line for the bar after the run
signal_line_bar ==
    /\ pc = "signal_line"
    /\ locals.call = "signal_line"
    /\ LET st == CrossStep(State, locals.prev_dif, locals.prev_dea,
                           locals.dif_value, locals.dea_value)
       IN  /\ signal_type' = st.signal_type
           /\ signal_counter' = st.signal_counter
           /\ current_signal' = st.current_signal
    /\ i' = i + 1
    /\ pc' = "calculate_macd"
    /\ UNCHANGED <<dif_points, dea_points, signal_points, period,
                   trend_direction, trend_duration, result, factors,
                   combine_vars, factor_vars, session_vars, trading_vars>>

\* the loop body of calculate_macd for the signal of that bar
calculate_macd_bar ==
    /\ pc = "calculate_macd"
    /\ locals.call = "signal_line"
    /\ LET d == TrendDecode(current_signal)
           s == Abs((locals.dif_value - locals.dea_value) * 2)
       IN  /\ trend_direction' = d.trend_direction
           /\ trend_duration' = d.trend_duration
           /\ result' = <<FactorResult("macd", i,
                             TrendScore(d.trend_direction, d.trend_duration,
                                        s, period),
                             FactorsGet(factors, "macd", 1))>>
    /\ pc' = "done"
    /\ UNCHANGED <<dif_points, dea_points, i, current_signal, signal_type,
                   signal_counter, signal_points, period, factors,
                   combine_vars, factor_vars, session_vars, trading_vars>>

InitRun ==
    /\ pc = "signal_line"
    /\ \E type \in {"golden", "death"}, n \in RunCounters,
          prev_dif \in DifValues, prev_dea \in DeaValues,
          dif_value \in DifValues, dea_value \in DeaValues :
          \* the carried state agrees with the previous bar
          /\ type = "golden" => prev_dif >= prev_dea
          /\ type = "death" => prev_dif <= prev_dea
          /\ signal_type = type
          /\ signal_counter = n
          /\ current_signal = Carried(type, n).current_signal
          /\ i = n + 2
          /\ locals = [call |-> "signal_line", prev_dif |-> prev_dif,
                       prev_dea |-> prev_dea, dif_value |-> dif_value,
                       dea_value |-> dea_value]
    /\ period \in Periods
    /\ dif_points = <<>>
    /\ dea_points = <<>>
    /\ signal_points = <<>>
    /\ trend_direction = 0
    /\ trend_duration = 0
    /\ result = <<>>
    /\ factors = <<>>
    /\ factor_results_list = <<>>
    /\ df = <<>>
    /\ combined = <<>>
    /\ earlier_combined = <<>>
    /\ dataset = <<>>
    /\ correlation_matrix = <<>>
    /\ captured = <<>>
    /\ strategy = NoStrategy
    /\ engine = NoEngine

NextRun ==
    \/ signal_line_bar
    \/ calculate_macd_bar

SpecRun == InitRun /\ [][NextRun]_vars

\* ------------------------------------------------ the trading strategies
\* MultiFactorStrategy of VeighNaBackTestService, MultiFactorStrategy of
\* VeighNaBackBoolCClTestExampleService (BOLL + CCI) and
\* EMTMultiFactorStrategy, each driven by a CTA engine that delivers bars
\* to on_bar and fills the orders the strategy sent, at any later time.
\* Prices are whole numbers, scores are counted in tenths and the
\* percentages of the exit rules in thousandths.  The composite score of a
\* bar is drawn with the bar: it is the entry of factor_scores for the
\* bar's datetime, or what _calculate_factor_score returns.

\* bars with free prices and scores delivered once trading can start
MaxTradingBars == 3
\* a bar is delivered while fewer orders than this are open
MaxOpenOrders == MaxTradingBars - 1

\* deque(maxlen=100); boll_period, cci_period of EMTMultiFactorStrategy
maxlen == 100
boll_period == 20
cci_period == 14

StrategyNames == {"VeighNaBackTest", "VeighNaBackBoolCCl", "EMT"}

\* the class attributes of the three strategies
Parameters(name) ==
    [buy_threshold |-> 5, sell_threshold |-> -5,
     fixed_size |-> IF name = "EMT" THEN 100 ELSE 1,
     stop_loss_pct |-> IF name = "VeighNaBackTest" THEN 50 ELSE 30,
     take_profit_pct |-> IF name = "VeighNaBackTest" THEN 100 ELSE 80,
     trailing_stop_pct |-> 20]

Scores == {-5, 0, 5}
\* the closes around an entry at 100 that reach each exit level of a
\* strategy: its stop-loss, a gain below and one above trailing_stop_pct,
\* its take-profit
FeedCloses(name) ==
    IF name = "VeighNaBackTest" THEN {95, 100, 101, 104, 110}
    ELSE {97, 100, 101, 104, 108}

\* the bars of a feed: "varied" has the closes of the strategy, with or
\* without a high of 110; "flat" stays at 100
FeedBars(feed, name) ==
    IF feed = "varied"
    THEN UNION {{[close_price |-> c, high_price |-> h, low_price |-> c] :
                    h \in {c, 110}} : c \in FeedCloses(name)}
    ELSE {[close_price |-> 100, high_price |-> 100, low_price |-> 100]}

Max(a, b) == IF a >= b THEN a ELSE b

\* self.buy(price, volume), self.sell(price, volume)
Order(direction, price, volume) ==
    [direction |-> direction, price |-> price, volume |-> volume]

\* Variant of ExitReason: the factor signal is tested first.
ExitReason_SignalFirst(name, close_price, entry_price, highest_price, composite_score) ==
    LET P == Parameters(name)
        pnl == (close_price - entry_price) * 1000
    IN  IF composite_score <= P.sell_threshold THEN "factor_signal"
        ELSE IF pnl <= -P.stop_loss_pct * entry_price THEN "stop_loss"
        ELSE IF pnl >= P.take_profit_pct * entry_price THEN "take_profit"
        ELSE "none"

\* The exit rule that applies to a bar while pos > 0, with
\*   current_pnl_pct    = (close - entry_price) / entry_price
\*   drawdown_from_high = (close - highest_price) / highest_price
\* VeighNaBackTest tests the drawdown against -stop_loss_pct / 2; the other
\* two test it against -trailing_stop_pct, and only when current_pnl_pct >
\* trailing_stop_pct.
ExitReason(name, close_price, entry_price, highest_price, composite_score) ==
    LET P == Parameters(name)
        pnl == (close_price - entry_price) * 1000
        drawdown == (close_price - highest_price) * 1000
    IN  IF pnl <= -P.stop_loss_pct * entry_price THEN "stop_loss"
        ELSE IF pnl >= P.take_profit_pct * entry_price THEN "take_profit"
        ELSE IF name = "VeighNaBackTest"
                /\ 2 * drawdown <= -P.stop_loss_pct * highest_price
        THEN "trailing_stop"
        ELSE IF name # "VeighNaBackTest"
                /\ pnl > P.trailing_stop_pct * entry_price
                /\ drawdown <= -P.trailing_stop_pct * highest_price
        THEN "trailing_stop"
        ELSE IF composite_score <= P.sell_threshold THEN "factor_signal"
        ELSE "none"

\* Variant of TradingLogic: a buy at every bar whose score reaches
\* buy_threshold, whatever the position.
TradingLogic_Pyramid(st, bar) ==
    LET P == Parameters(st.strategy_name)
    IN  IF st.composite_score >= P.buy_threshold
        THEN [strategy |-> [st EXCEPT !.entry_price = bar.close_price,
                                      !.highest_price = bar.close_price],
              orders |-> <<Order("buy", bar.close_price, P.fixed_size)>>,
              exit_reason |-> "none"]
        ELSE [strategy |-> st, orders |-> <<>>, exit_reason |-> "none"]

\* The body of on_bar after the score is set (_execute_trading_logic of the
\* EMT strategy): the fields of the strategy afterwards, the orders sent
\* and the exit rule that applied.  VeighNaBackTest has no lowest_price.
TradingLogic(st, bar) ==
    LET P == Parameters(st.strategy_name)
    IN  IF st.pos = 0
        THEN IF st.composite_score >= P.buy_threshold
             THEN [strategy |-> [st EXCEPT
                                   !.entry_price = bar.close_price,
                                   !.highest_price = bar.close_price,
                                   !.lowest_price =
                                       IF st.strategy_name = "VeighNaBackTest"
                                       THEN @ ELSE bar.close_price],
                   orders |-> <<Order("buy", bar.close_price, P.fixed_size)>>,
                   exit_reason |-> "none"]
             ELSE [strategy |-> st, orders |-> <<>>, exit_reason |-> "none"]
        ELSE IF st.pos > 0
        THEN LET highest_price == Max(st.highest_price, bar.high_price)
                 lowest_price ==
                     IF st.strategy_name = "VeighNaBackTest"
                     THEN st.lowest_price
                     ELSE Min(st.lowest_price, bar.low_price)
                 exit_reason == ExitReason(st.strategy_name, bar.close_price,
                                           st.entry_price, highest_price,
                                           st.composite_score)
             IN  [strategy |-> [st EXCEPT !.highest_price = highest_price,
                                          !.lowest_price = lowest_price],
                  orders |-> IF exit_reason # "none"
                             THEN <<Order("sell", bar.close_price,
                                          Abs(st.pos))>>
                             ELSE <<>>,
                  exit_reason |-> exit_reason]
        ELSE [strategy |-> st, orders |-> <<>>, exit_reason |-> "none"]

\* how many bars the engine delivers
BarLimit ==
    (IF strategy.strategy_name = "EMT"
     THEN IF engine.feed = "flat" THEN maxlen
          ELSE Max(boll_period, cci_period) - 1
     ELSE 0) + MaxTradingBars

\* the engine may deliver the next bar
Deliverable ==
    /\ pc = "trading"
    /\ engine.bars < BarLimit
    /\ Len(engine.orders) < MaxOpenOrders

\* the engine after it delivered bar and on_bar returned
Delivered(bar, outcome, calculated) ==
    [engine EXCEPT !.bars = @ + 1,
                   !.bar = bar,
                   !.orders = @ \o outcome.orders,
                   !.exit_reason = outcome.exit_reason,
                   !.calculated = @ + calculated]

\* what no strategy step changes
trading_frame == <<pc, macd_vars, factors, combine_vars, factor_vars,
                   session_vars>>

\* MultiFactorStrategy.on_bar of VeighNaBackTestService
VeighNaBackTest_on_bar ==
    /\ Deliverable
    /\ strategy.strategy_name = "VeighNaBackTest"
    /\ \E b \in FeedBars(engine.feed, strategy.strategy_name),
          score \in Scores :
          LET bar == [datetime |-> engine.bars + 1] @@ b
              outcome == TradingLogic([strategy EXCEPT
                                          !.composite_score = score],
                                      bar)
          IN  /\ strategy' = outcome.strategy
              /\ engine' = Delivered(bar, outcome, 0)
    /\ UNCHANGED trading_frame

\* MultiFactorStrategy.on_bar of VeighNaBackBoolCClTestExampleService
VeighNaBackBoolCCl_on_bar ==
    /\ Deliverable
    /\ strategy.strategy_name = "VeighNaBackBoolCCl"
    /\ \E b \in FeedBars(engine.feed, strategy.strategy_name),
          score \in Scores :
          LET bar == [datetime |-> engine.bars + 1] @@ b
              outcome == TradingLogic([strategy EXCEPT
                                          !.composite_score = score],
                                      bar)
          IN  /\ strategy' = outcome.strategy
              /\ engine' = Delivered(bar, outcome, 0)
    /\ UNCHANGED trading_frame

\* Variant of WindowAppend: the window keeps its oldest bars.
WindowAppend_KeepOldest(bar_window, datetime) ==
    IF Len(bar_window) < maxlen THEN Append(bar_window, datetime)
    ELSE bar_window

\* bar_window.append(bar) on a deque(maxlen=100): a full deque drops its
\* oldest bar.  The window is kept as the datetimes of its bars.
WindowAppend(bar_window, datetime) ==
    IF Len(bar_window) < maxlen THEN Append(bar_window, datetime)
    ELSE Append(Tail(bar_window), datetime)

\* EMTMultiFactorStrategy.on_bar
EMT_on_bar ==
    /\ Deliverable
    /\ strategy.strategy_name = "EMT"
    /\ \E b \in FeedBars(engine.feed, strategy.strategy_name),
          score \in Scores :
          LET bar == [datetime |-> engine.bars + 1] @@ b
              bar_window == WindowAppend(strategy.bar_window, bar.datetime)
              appended == [strategy EXCEPT !.bar_window = bar_window]
              outcome ==
                  IF Len(bar_window) < Max(boll_period, cci_period)
                  THEN [strategy |-> appended, orders |-> <<>>,
                        exit_reason |-> "none"]
                  ELSE TradingLogic([appended EXCEPT
                                        !.composite_score = score],
                                    bar)
          IN  /\ strategy' = outcome.strategy
              /\ engine' =
                    Delivered(bar, outcome,
                              IF Len(bar_window)
                                    < Max(boll_period, cci_period)
                              THEN 0 ELSE 1)
    /\ UNCHANGED trading_frame

\* The engine fills an open order: pos moves by the traded volume before
\* on_trade is called (the strategies do not override on_trade).
on_trade ==
    /\ pc = "trading"
    /\ \E k \in 1..Len(engine.orders) :
          LET order == engine.orders[k]
          IN  /\ strategy' =
                    [strategy EXCEPT
                        !.pos = IF order.direction = "buy"
                                THEN @ + order.volume ELSE @ - order.volume]
              /\ engine' =
                    [engine EXCEPT
                        !.orders = SubSeq(@, 1, k - 1)
                                     \o SubSeq(@, k + 1, Len(@)),
                        !.exit_reason = "none"]
    /\ UNCHANGED trading_frame

\* A strategy is started flat, with the class defaults of its variables, on
\* a feed.
InitStrategy ==
    /\ pc = "trading"
    /\ \E name \in StrategyNames, feed \in {"varied", "flat"} :
          /\ feed = "flat" => name = "EMT"
          /\ strategy = [strategy_name |-> name, pos |-> 0,
                         composite_score |-> 0, entry_price |-> 0,
                         highest_price |-> 0, lowest_price |-> 0,
                         bar_window |-> <<>>]
          /\ engine = [feed |-> feed, bars |-> 0, bar |-> NoCall,
                       orders |-> <<>>, exit_reason |-> "none",
                       calculated |-> 0]
    /\ dif_points = <<>>
    /\ dea_points = <<>>
    /\ i = 0
    /\ current_signal = 0
    /\ signal_type = "none"
    /\ signal_counter = 0
    /\ signal_points = <<>>
    /\ period \in {boll_period}
    /\ trend_direction = 0
    /\ trend_duration = 0
    /\ result = <<>>
    /\ factors = <<>>
    /\ factor_results_list = <<>>
    /\ df = <<>>
    /\ combined = <<>>
    /\ earlier_combined = <<>>
    /\ dataset = <<>>
    /\ locals = NoCall
    /\ correlation_matrix = <<>>
    /\ captured = <<>>

NextStrategy ==
    \/ VeighNaBackTest_on_bar
    \/ VeighNaBackBoolCCl_on_bar
    \/ EMT_on_bar
    \/ on_trade

SpecStrategy == InitStrategy /\ [][NextStrategy]_vars

\* ===================================================================
\* Properties of DDService.signal_line and calculate_macd (under Spec)
\* ===================================================================
\* the step that processes bar k = i + 1 of the code's bars i > 0
BarStep == pc = "signal_line" /\ i' = i + 1 /\ i >= 1
\* bar k (1-based, k > 1) is a golden / death cross
GoldenCross(k) ==
    /\ dif_points[k - 1].value <= dea_points[k - 1].value
    /\ dif_points[k].value > dea_points[k].value
DeathCross(k) ==
    /\ dif_points[k - 1].value >= dea_points[k - 1].value
    /\ dif_points[k].value < dea_points[k].value
\* the signal emitted for bar k
Emitted(k) == signal_points[k].value

\* C1: at every bar i > 0, whatever state is carried, a golden cross
\* (DIF[i-1] <= DEA[i-1], DIF[i] > DEA[i]) emits exactly 100000 and enters
\* Golden with counter 0; otherwise a death cross (DIF[i-1] >= DEA[i-1],
\* DIF[i] < DEA[i]) emits exactly 200000 and enters Death with counter 0.
C1_CrossEmitsBase ==
    [][BarStep =>
        /\ GoldenCross(i + 1) =>
              /\ signal_points'[i + 1].value = 100000
              /\ signal_type' = "golden" /\ signal_counter' = 0
        /\ (~GoldenCross(i + 1) /\ DeathCross(i + 1)) =>
              /\ signal_points'[i + 1].value = 200000
              /\ signal_type' = "death" /\ signal_counter' = 0
      ]_vars

\* C1 witness: a golden cross was taken from a carried Death state with a
\* running counter, and a death cross from a carried Golden state.
C1_Witness ==
    /\ \E k \in 2..Len(signal_points) :
          GoldenCross(k) /\ Emitted(k - 1) > 200000 /\ Emitted(k) = 100000
    /\ \E k \in 2..Len(signal_points) :
          DeathCross(k) /\ Emitted(k - 1) >= 100000
             /\ Emitted(k - 1) < 200000 /\ Emitted(k) = 200000

\* C2: at a bar i > 0 without a cross, a carried Golden(n) with DIF[i] >
\* DEA[i] becomes Golden(n+1) and emits 100000+n+1; a carried Death(n) with
\* DIF[i] < DEA[i] becomes Death(n+1) and emits 200000+n+1.
C2_Continuation ==
    [][(BarStep /\ ~GoldenCross(i + 1) /\ ~DeathCross(i + 1)) =>
        /\ (signal_type = "golden"
              /\ dif_points[i + 1].value > dea_points[i + 1].value) =>
              /\ signal_type' = "golden"
              /\ signal_counter' = signal_counter + 1
              /\ signal_points'[i + 1].value = 100000 + signal_counter + 1
        /\ (signal_type = "death"
              /\ dif_points[i + 1].value < dea_points[i + 1].value) =>
              /\ signal_type' = "death"
              /\ signal_counter' = signal_counter + 1
              /\ signal_points'[i + 1].value = 200000 + signal_counter + 1
      ]_vars

\* C2 witness: a Golden run and a Death run both advanced past their cross.
C2_Witness ==
    /\ \E k \in 1..Len(signal_points) : Emitted(k) = 100001
    /\ \E k \in 1..Len(signal_points) : Emitted(k) = 200001

\* neither a cross nor a continuation rule applies at bar k, given the
\* carried signal_type
NoRule(k, type) ==
    /\ ~GoldenCross(k) /\ ~DeathCross(k)
    /\ ~(type = "golden" /\ dif_points[k].value > dea_points[k].value)
    /\ ~(type = "death" /\ dif_points[k].value < dea_points[k].value)

\* C3: hold-last.  At a bar i > 0 where neither a cross nor a continuation
\* applies, the emitted signal equals the one of bar i-1 and the state and
\* its counter are unchanged; and once a nonzero signal has been emitted no
\* later bar of the series emits 0.
C3_HoldLast ==
    /\ [][(BarStep /\ NoRule(i + 1, signal_type)) =>
            /\ signal_points'[i + 1].value = signal_points[i].value
            /\ signal_type' = signal_type
            /\ signal_counter' = signal_counter
            /\ current_signal' = current_signal
         ]_vars
    /\ [](\A a, b \in 1..Len(signal_points) :
            (a < b /\ Emitted(a) # 0) => Emitted(b) # 0)

\* C3 witness: a nonzero signal was held over a bar with DIF = DEA.
C3_Witness ==
    \E k \in 2..Len(signal_points) :
        /\ dif_points[k].value = dea_points[k].value
        /\ Emitted(k - 1) >= 100000
        /\ Emitted(k) = Emitted(k - 1)

\* the step that processes any bar, bar 0 included
AnyBarStep == pc = "signal_line" /\ i' = i + 1
\* the signal emitted before this step (0 before bar 0) and by this step
EmittedBefore == IF i = 0 THEN 0 ELSE signal_points[i].value
EmittedNow == signal_points'[i + 1].value

\* C4 as stated: within every maximal run of consecutive bars whose state
\* is Golden the emitted signal starts at 100000 and increases by exactly 1
\* at each following bar of the run; the same for Death from 200000.
C4_Original ==
    [][AnyBarStep =>
        /\ (signal_type # "golden" /\ signal_type' = "golden") =>
              EmittedNow = 100000
        /\ (signal_type = "golden" /\ signal_type' = "golden") =>
              EmittedNow = EmittedBefore + 1
        /\ (signal_type # "death" /\ signal_type' = "death") =>
              EmittedNow = 200000
        /\ (signal_type = "death" /\ signal_type' = "death") =>
              EmittedNow = EmittedBefore + 1
      ]_vars

\* C4 as amended: a maximal run of Golden states starts at 100000; at each
\* following bar i of the run the signal is the previous one plus exactly 1
\* when DIF > DEA at bars i-1 and i, is the previous one repeated when
\* DIF[i] = DEA[i] (held bar), and is 100000 again when DIF[i] > DEA[i]
\* follows a held bar (DIF[i-1] = DEA[i-1]); no other case occurs.  The same
\* for Death with 200000 and DIF < DEA.
C4_RunShape ==
    [][AnyBarStep =>
        LET d == dif_points[i + 1].value - dea_points[i + 1].value
            pd == dif_points[i].value - dea_points[i].value
        IN
        /\ (signal_type # "golden" /\ signal_type' = "golden") =>
              EmittedNow = 100000
        /\ (signal_type = "golden" /\ signal_type' = "golden") =>
              \/ d > 0 /\ pd > 0 /\ EmittedNow = EmittedBefore + 1
              \/ d = 0 /\ EmittedNow = EmittedBefore
              \/ d > 0 /\ pd = 0 /\ EmittedNow = 100000
        /\ (signal_type # "death" /\ signal_type' = "death") =>
              EmittedNow = 200000
        /\ (signal_type = "death" /\ signal_type' = "death") =>
              \/ d < 0 /\ pd < 0 /\ EmittedNow = EmittedBefore + 1
              \/ d = 0 /\ EmittedNow = EmittedBefore
              \/ d < 0 /\ pd = 0 /\ EmittedNow = 200000
      ]_vars

\* C4 witness: one Golden run that starts, advances, is held and restarts.
C4_Witness ==
    /\ Len(signal_points) = 5
    /\ Emitted(2) = 100000 /\ Emitted(3) = 100001
    /\ Emitted(4) = 100001 /\ Emitted(5) = 100000
    /\ signal_type = "golden"

\* C5: for non-empty DIF and DEA lines signal_line emits 0 at bar 0 however
\* DIF[0] compares with DEA[0], and returns exactly one point per DIF point,
\* in the same order and with the same timestamps.
C5_FirstBarAndShape ==
    (pc # "signal_line" /\ dif_points # <<>> /\ dea_points # <<>>) =>
        /\ signal_points[1].value = 0
        /\ Len(signal_points) = Len(dif_points)
        /\ \A k \in 1..Len(dif_points) :
              signal_points[k].datatime = dif_points[k].datatime

\* C5 witness: a returned series of several bars whose bar 0 has DIF > DEA
\* and whose first timestamp is not its index.
C5_Witness ==
    /\ pc = "done"
    /\ Len(signal_points) = 3
    /\ dif_points[1].value > dea_points[1].value
    /\ dif_points[1].datatime = 2
    /\ signal_points[1].value = 0

\* C6: calculate_macd decodes a signal value s as: s >= 200000 gives
\* direction -1 and duration s - 200000; 100000 <= s < 200000 gives
\* direction +1 and duration s - 100000; any other value gives direction 0
\* and duration 0, and the trend score of every bar whose signal is 0 is 0.
C6_Decode ==
    /\ pc \in {"calculate_macd", "done"} /\ Len(result) > 0 =>
          LET s == signal_points[Len(result)].value
          IN  /\ s >= 200000 =>
                    trend_direction = -1 /\ trend_duration = s - 200000
              /\ (100000 <= s /\ s < 200000) =>
                    trend_direction = 1 /\ trend_duration = s - 100000
              /\ s < 100000 =>
                    trend_direction = 0 /\ trend_duration = 0
    /\ \A k \in 1..Len(result) :
          /\ signal_points[k].value = 0 => result[k].value.num = 0
          /\ signal_points[k].value >= 200000 => result[k].value.num <= 0
          /\ (100000 <= signal_points[k].value
                /\ signal_points[k].value < 200000) =>
                result[k].value.num >= 0

\* C6 witness: one call decoded a neutral, a bullish and a bearish signal
\* with a non-zero duration.
C6_Witness ==
    /\ pc = "done"
    /\ \E k \in 1..Len(result) : signal_points[k].value = 0
    /\ \E k \in 1..Len(result) :
          signal_points[k].value = 100001 /\ result[k].value.num > 0
    /\ \E k \in 1..Len(result) :
          signal_points[k].value = 200000 /\ result[k].value.num < 0
    /\ trend_direction = -1

\* ===================================================================
\* Properties of RegimeService.combine_factors (under SpecCombine)
\* ===================================================================
\* the rows of df in the group of one timestamp, and of one factor in it
RowsAt(t) == {k \in 1..Len(df) : df[k].datatime = t}
RowsOfIn(f, g) == {k \in g : df[k].factor_name = f}
\* sum of weight, and of normalized_value * weight in units of factor f
WeightSum(g) == SumFn([k \in g |-> df[k].weight], g)
WeightedDev(f, g) ==
    SumFn([k \in RowsOfIn(f, g) |->
              df[k].normalized_value.dev * df[k].weight], RowsOfIn(f, g))
\* the unit sqrt(n1 / q) of a non-zero term is the one of the factor's rows
SameUnit(term, f, g) ==
    term.dev # 0 =>
        \E k \in RowsOfIn(f, g) :
            /\ df[k].normalized_value.n1 = term.n1
            /\ df[k].normalized_value.q = term.q

\* score = sum(normalized_value * weight) / sum(weight) over the group g
IsWeightedMean(score, g) ==
    /\ score.kind = "finite"
    /\ \A f \in FactorNames :
          /\ score.terms[f].dev * WeightSum(g) = WeightedDev(f, g) * score.den
          /\ SameUnit(score.terms[f], f, g)

\* score = the normalized value of row k
IsNormalizedValue(score, k) ==
    /\ score.kind = "finite"
    /\ \A f \in FactorNames :
          IF f = df[k].factor_name
          THEN /\ score.terms[f].dev = df[k].normalized_value.dev * score.den
               /\ SameUnit(score.terms[f], f, {k})
          ELSE score.terms[f] = Zero

\* C7 as stated: for every timestamp group composite_score is the sum of
\* normalized_value * weight divided by the sum of the weights and
\* factor_count is the size of the group; a group of one FactorResult has
\* factor_count 1 and that result's normalized value as composite_score.
C7_Original ==
    pc = "returned" =>
        \A n \in 1..Len(combined) :
            LET g == RowsAt(combined[n].datatime)
            IN  /\ combined[n].factor_count = Cardinality(g)
                /\ IsWeightedMean(combined[n].composite_score, g)
                /\ \A k \in g :
                      g = {k} =>
                          /\ combined[n].factor_count = 1
                          /\ IsNormalizedValue(combined[n].composite_score, k)

\* C7 as amended: factor_count is the size of the group for every group; for
\* every group whose weights do not sum to 0, composite_score is the sum of
\* normalized_value * weight divided by the sum of the weights, so a group
\* of one FactorResult of non-zero weight has that result's normalized value
\* as composite_score; for a group whose weights sum to 0 the division is
\* 0/0 and composite_score is NaN.
C7_WeightedMean ==
    pc = "returned" =>
        \A n \in 1..Len(combined) :
            LET g == RowsAt(combined[n].datatime)
            IN  /\ combined[n].factor_count = Cardinality(g)
                /\ WeightSum(g) # 0 =>
                      IsWeightedMean(combined[n].composite_score, g)
                /\ WeightSum(g) = 0 =>
                      combined[n].composite_score.kind # "finite"
                /\ \A k \in g :
                      g = {k} =>
                          /\ combined[n].factor_count = 1
                          /\ df[k].weight # 0 =>
                                IsNormalizedValue(
                                    combined[n].composite_score, k)

\* C7 witness: one call returned a group of two factors with different
\* non-zero weights and a non-zero normalized value, and a group of a single
\* FactorResult.
C7_Witness ==
    /\ pc = "returned"
    /\ \E n \in 1..Len(combined) :
          \E j, k \in RowsAt(combined[n].datatime) :
              /\ RowsAt(combined[n].datatime) = {j, k}
              /\ df[j].factor_name # df[k].factor_name
              /\ df[j].weight = 1 /\ df[k].weight = 2
              /\ df[j].normalized_value.dev # 0
    /\ \E n \in 1..Len(combined) :
          /\ combined[n].factor_count = 1
          /\ combined[n].composite_score.kind = "finite"

\* C8: the returned list holds exactly one CompositeScore per distinct
\* timestamp of the pooled input (none missing, none duplicated, none
\* invented), strictly ascending by timestamp, whatever the order of the
\* lists and of the items inside them.
C8_OnePerTimestampAscending ==
    pc = "returned" =>
        LET pooled == Pool(factor_results_list)
            stamps == {pooled[k].datatime : k \in 1..Len(pooled)}
        IN  /\ {combined[n].datatime : n \in 1..Len(combined)} = stamps
            /\ Len(combined) = Cardinality(stamps)
            /\ \A m, n \in 1..Len(combined) :
                  m < n => combined[m].datatime < combined[n].datatime

\* C8 witness: the pooled input was not in timestamp order, across the lists
\* and inside a list, and repeated a timestamp.
C8_Witness ==
    /\ pc = "returned"
    /\ Len(factor_results_list) = 2
    /\ Len(factor_results_list[1]) = 2
    /\ factor_results_list[1][1].datatime = 2
    /\ factor_results_list[1][2].datatime = 1
    /\ Len(factor_results_list[2]) = 1
    /\ factor_results_list[2][1].datatime = 2
    /\ Len(combined) = 2

\* C10: for every factor whose pooled values have a standard deviation above
\* 1e-8 (at least two values, not all equal), the normalized values of the
\* factor sum to 0 and their squares sum to n - 1: mean 0, sample standard
\* deviation 1.  With z_k = dev_k * sqrt(n1 / q) these are sum(dev) = 0 and
\* sum(dev^2) * n1 = (n - 1) * q.
C10_ZScoreMoments ==
    pc = "returned" =>
        \A f \in FactorNames :
            LET mask == {k \in 1..Len(df) : df[k].factor_name = f}
                n == Cardinality(mask)
            IN  (\E j, k \in mask : df[j].value # df[k].value) =>
                  /\ \A j, k \in mask :
                        /\ df[j].normalized_value.n1 = df[k].normalized_value.n1
                        /\ df[j].normalized_value.q = df[k].normalized_value.q
                        /\ df[j].normalized_value.q > 0
                  /\ SumFn([k \in mask |-> df[k].normalized_value.dev], mask)
                        = 0
                  /\ \A j \in mask :
                        SumFn([k \in mask |->
                                  df[k].normalized_value.dev
                                    * df[k].normalized_value.dev], mask)
                              * df[j].normalized_value.n1
                          = (n - 1) * df[j].normalized_value.q

\* C10 witness: a factor of two pooled values, not equal, normalized next to
\* a second factor.
C10_Witness ==
    /\ pc = "returned"
    /\ \E f \in FactorNames :
          LET mask == {k \in 1..Len(df) : df[k].factor_name = f}
          IN  /\ Cardinality(mask) = 2
              /\ \E j, k \in mask : df[j].value # df[k].value
              /\ \E k \in 1..Len(df) : df[k].factor_name # f

\* a factor's pooled values are degenerate: a single value, or all equal (the
\* values are integers, so std <= 1e-8 exactly when they are all equal)
Degenerate(f) ==
    LET mask == {k \in 1..Len(df) : df[k].factor_name = f}
    IN  /\ mask # {}
        /\ \A j, k \in mask : df[j].value = df[k].value

\* C11: when a factor's pooled values are constant or it has a single value,
\* combine_factors returns, every point of that factor has normalized value
\* 0, the factor's term in every composite score is 0, and its rows are still
\* counted in factor_count and its weights in the divisor.
C11_DegenerateFactorZero ==
    pc \in {"returned", "KeyError"} =>
        \A f \in FactorNames :
            (\E k \in 1..Len(Pool(factor_results_list)) :
                  /\ Pool(factor_results_list)[k].factor_name = f
                  /\ \A j \in 1..Len(Pool(factor_results_list)) :
                        Pool(factor_results_list)[j].factor_name = f =>
                            Pool(factor_results_list)[j].value
                                = Pool(factor_results_list)[k].value) =>
              /\ pc = "returned"
              /\ Degenerate(f)
              /\ \A k \in 1..Len(df) :
                    df[k].factor_name = f => df[k].normalized_value = Zero
              /\ \A n \in 1..Len(combined) :
                    LET g == RowsAt(combined[n].datatime)
                    IN  /\ combined[n].composite_score.terms[f] = Zero
                        /\ combined[n].factor_count = Cardinality(g)
                        /\ combined[n].composite_score.den = WeightSum(g)

\* C11 witness: a factor of a single value and non-zero weight shares its
\* timestamp with a row of a second factor whose normalized value is not 0.
C11_Witness ==
    /\ pc = "returned"
    /\ \E f \in FactorNames :
          /\ Degenerate(f)
          /\ \E j, k \in 1..Len(df) :
                /\ df[j].factor_name = f /\ df[j].weight # 0
                /\ df[k].factor_name # f
                /\ df[k].datatime = df[j].datatime
                /\ df[k].normalized_value.dev # 0 /\ df[k].weight # 0
                /\ \E n \in 1..Len(combined) :
                      /\ combined[n].datatime = df[j].datatime
                      /\ combined[n].factor_count = 2
                      /\ combined[n].composite_score.kind = "finite"

\* ===================================================================
\* combine_factors([A]) against combine_factors([A, A]) (under SpecDup)
\* ===================================================================
\* A composite score of one factor f is terms[f].dev * sqrt(n1 / q) / den:
\* its sign, and its square as a fraction in lowest terms.
Sign(x) == IF x > 0 THEN 1 ELSE IF x < 0 THEN -1 ELSE 0
ScoreSign(score, f) == Sign(score.terms[f].dev) * Sign(score.den)
ScoreSquare(score, f) ==
    Frac(score.terms[f].dev * score.terms[f].dev * score.terms[f].n1,
         score.terms[f].q * score.den * score.den)

\* two results of the division are the same number (or both 0/0)
SameScore(a, b) ==
    /\ a.kind = b.kind
    /\ a.kind = "finite" =>
          \A f \in FactorNames :
              /\ ScoreSign(a, f) = ScoreSign(b, f)
              /\ ScoreSquare(a, f) = ScoreSquare(b, f)

\* b = a * sqrt(num / den), factor by factor
ScaledScore(a, b, num, den) ==
    /\ a.kind = "finite" /\ b.kind = "finite"
    /\ \A f \in FactorNames :
          /\ ScoreSign(a, f) = ScoreSign(b, f)
          /\ ScoreSquare(b, f).num * ScoreSquare(a, f).den * den
                = ScoreSquare(a, f).num * ScoreSquare(b, f).den * num

\* C9 as stated: combine_factors([A]) with every item weighted w yields at
\* every timestamp the same composite_score as combine_factors([A, A]) with
\* both copies weighted w / 2.
C9_Original ==
    pc = "returned_both" =>
        /\ Len(combined) = Len(earlier_combined)
        /\ \A n \in 1..Len(combined) :
              /\ combined[n].datatime = earlier_combined[n].datatime
              /\ SameScore(earlier_combined[n].composite_score,
                           combined[n].composite_score)

\* C9 as amended: both calls return the same timestamps; with A of n items
\* and w # 0, the composite_score of [A, A] at every timestamp is the one of
\* [A] multiplied by sqrt((2n - 1) / (2n - 2)) when n >= 2 (the Z-scores are
\* taken over the 2n pooled values with the sample standard deviation), so
\* the two are the same only where the score of [A] is 0 (in particular at
\* every timestamp when A is constant); for n = 1 both are 0; for w = 0 both
\* are NaN.
C9_DoubledPoolScales ==
    pc = "returned_both" =>
        LET n == Len(factor_results_list[1])
        IN  /\ Len(combined) = Len(earlier_combined)
            /\ \A m \in 1..Len(combined) :
                  /\ combined[m].datatime = earlier_combined[m].datatime
                  /\ IF factor_results_list[1][1].weight = 0
                     THEN /\ combined[m].composite_score.kind = "nan"
                          /\ earlier_combined[m].composite_score.kind = "nan"
                     ELSE IF n = 1
                     THEN /\ SameScore(earlier_combined[m].composite_score,
                                       combined[m].composite_score)
                          /\ \A f \in FactorNames :
                                combined[m].composite_score.terms[f] = Zero
                     ELSE ScaledScore(earlier_combined[m].composite_score,
                                      combined[m].composite_score,
                                      2 * n - 1, 2 * n - 2)

\* C9 witness: both calls returned for a series A of three items, not all
\* equal, of non-zero weight, with a non-zero score.
C9_Witness ==
    /\ pc = "returned_both"
    /\ Len(factor_results_list[1]) = 3
    /\ factor_results_list[1][1].weight = 1
    /\ \E m \in 1..Len(combined) :
          \E f \in FactorNames :
              /\ ScoreSign(combined[m].composite_score, f) # 0
              /\ ScoreSign(earlier_combined[m].composite_score, f) # 0

\* ===================================================================
\* Properties of a caller's session (under SpecSession)
\* ===================================================================
\* the FactorResults of every list, in list order, and for each of them the
\* number of the list it stands in
RECURSIVE Items(_)
Items(lists) ==
    IF lists = <<>> THEN <<>> ELSE Head(lists) \o Items(Tail(lists))
RECURSIVE ListOf(_, _)
ListOf(lists, k) ==
    IF k <= Len(Head(lists)) THEN 1
    ELSE 1 + ListOf(Tail(lists), k - Len(Head(lists)))

\* the steps of a session
RegisterStep == factors' # factors
CalculateStep == Len(factor_results_list') = Len(factor_results_list) + 1

\* C12: a register_factor call changes no FactorResult already produced,
\* and combine_factors applies to every row the weight stored in its
\* FactorResult, whatever was registered since: the composite scores are
\* the weighted means under the stored weights.  A calculate_* call stores
\* in the FactorResults it produces the weight registered at that moment and
\* leaves the lists produced earlier alone.
C12_WeightCapture ==
    /\ [][/\ RegisterStep => factor_results_list' = factor_results_list
          /\ CalculateStep =>
                LET new == factor_results_list'[Len(factor_results_list')]
                IN  /\ \A k \in 1..Len(new) :
                          new[k].weight =
                              IF new[k].factor_name \in DOMAIN factors
                              THEN factors[new[k].factor_name] ELSE 1
                    /\ \A j \in 1..Len(factor_results_list) :
                          factor_results_list'[j] = factor_results_list[j]
         ]_vars
    /\ [](pc = "returned" =>
            /\ Len(df) = Len(Items(factor_results_list))
            /\ \A k \in 1..Len(df) :
                  df[k].weight = Items(factor_results_list)[k].weight
            /\ \A n \in 1..Len(combined) :
                  LET g == RowsAt(combined[n].datatime)
                  IN  WeightSum(g) # 0 =>
                          IsWeightedMean(combined[n].composite_score, g))

\* C12 witness: combine_factors returned a non-zero score for a factor that
\* was calculated under one registered weight and re-registered with
\* another before the call.
C12_Witness ==
    /\ pc = "returned"
    /\ \E k \in 1..Len(df) :
          /\ df[k].factor_name \in DOMAIN factors
          /\ captured[ListOf(factor_results_list, k)].registered
          /\ df[k].weight = 2
          /\ factors[df[k].factor_name] = 1
          /\ df[k].normalized_value.dev # 0
          /\ \E n \in 1..Len(combined) :
                /\ combined[n].datatime = df[k].datatime
                /\ combined[n].composite_score.terms[df[k].factor_name].dev
                      # 0

\* C13 as stated: combine_factors weights every row by what the registry
\* holds for the row's factor name when combine_factors is invoked, 1.0 for
\* a name that is not registered.
C13_Original ==
    pc = "returned" =>
        \A k \in 1..Len(df) :
            df[k].weight =
                IF df[k].factor_name \in DOMAIN factors
                THEN factors[df[k].factor_name] ELSE 1

\* C13 as amended: combine_factors weights every row by what the registry
\* held for the row's factor name when the calculate_* call produced the
\* row's FactorResult, 1.0 when the name was not registered then; what is
\* registered when combine_factors is invoked plays no part.
C13_WeightAtCalculation ==
    pc = "returned" =>
        /\ \A k \in 1..Len(df) :
              LET at == captured[ListOf(factor_results_list, k)]
              IN  df[k].weight = IF at.registered THEN at.weight ELSE 1
        /\ \A n \in 1..Len(combined) :
              LET g == RowsAt(combined[n].datatime)
              IN  combined[n].composite_score.den = WeightSum(g)

\* C13 witness: register_factor(f, w1), calculate f, register_factor(f, w2),
\* combine_factors; and a factor calculated unregistered and registered
\* afterwards.
C13_Witness ==
    /\ pc = "returned"
    /\ Len(factor_results_list) = 2
    /\ Len(factor_results_list[1]) = 2 /\ Len(factor_results_list[2]) = 2
    /\ captured[1].registered /\ captured[1].weight = 2
    /\ factors[factor_results_list[1][1].factor_name] = 0
    /\ ~captured[2].registered
    /\ factor_results_list[2][1].factor_name \in DOMAIN factors
    /\ factors[factor_results_list[2][1].factor_name] = 2
    /\ factor_results_list[2][1].factor_name
          # factor_results_list[1][1].factor_name

\* C14 as stated: every weight the registry holds is >= 0.
C14_Original == \A f \in DOMAIN factors : factors[f] >= 0

\* C15: the registry starts empty; a step that changes it is a
\* register_factor step: it sets one entry, keeps every other entry and
\* changes nothing else; the steps of calculate_*, combine_factors and
\* calculate_factor_correlation leave it unchanged.
C15_RegistryFrame ==
    /\ DOMAIN factors = {}
    /\ [][/\ RegisterStep =>
                /\ \E f \in FactorNames :
                      /\ DOMAIN factors' = DOMAIN factors \cup {f}
                      /\ \A n \in DOMAIN factors \ {f} :
                            factors'[n] = factors[n]
                /\ UNCHANGED <<pc, combine_vars, session_vars, trading_vars>>
          /\ (CalculateStep \/ pc' # pc) => factors' = factors
         ]_vars

\* C15 witness: both names are registered, with different weights, around
\* two calculate_* calls and a combine_factors call.
C15_Witness ==
    /\ pc = "returned"
    /\ DOMAIN factors = FactorNames
    /\ \E f, g \in FactorNames : factors[f] = 2 /\ factors[g] = -1
    /\ Len(factor_results_list) = 2
    /\ captured[1].registered /\ ~captured[2].registered

\* ===================================================================
\* combine_factors and calculate_factor_correlation on empty lists and
\* zero weights (under SpecCombine and SpecSession)
\* ===================================================================
\* C17 as stated: whichever of the lists are empty, combine_factors does not
\* fail; it returns one score per timestamp of the non-empty lists, and an
\* empty sequence when every list is empty.
C17_Original ==
    pc \in {"returned", "KeyError"} =>
        /\ pc = "returned"
        /\ Items(factor_results_list) = <<>> => combined = <<>>
        /\ {combined[n].datatime : n \in 1..Len(combined)}
              = {Items(factor_results_list)[k].datatime :
                    k \in 1..Len(Items(factor_results_list))}

\* the weights of the FactorResults passed at timestamp t sum to 0
ZeroWeightAt(t) ==
    LET at == {k \in 1..Len(Items(factor_results_list)) :
                  Items(factor_results_list)[k].datatime = t}
    IN  /\ at # {}
        /\ SumFn([k \in at |-> Items(factor_results_list)[k].weight], at) = 0

\* C18: when the weights of a timestamp group sum to 0, combine_factors
\* still returns (no error is raised) and the group's composite_score is not
\* a finite number: NaN when the weighted sum is 0 too (0/0), infinite
\* otherwise; the group is reported with its factor_count like any other.
C18_ZeroWeightSumUnguarded ==
    pc \in {"returned", "KeyError"} =>
        \A t \in Times :
            ZeroWeightAt(t) =>
                /\ pc = "returned"
                /\ \E n \in 1..Len(combined) :
                      /\ combined[n].datatime = t
                      /\ combined[n].factor_count = Cardinality(RowsAt(t))
                      /\ combined[n].composite_score.den = 0
                      /\ combined[n].composite_score.kind =
                            IF \A f \in FactorNames :
                                   WeightedDev(f, RowsAt(t)) = 0
                            THEN "nan" ELSE "inf"

\* C18 witness: two factors, both of weight 0, met at one timestamp, and the
\* call returned NaN for it.
C18_Witness ==
    /\ pc = "returned"
    /\ \E n \in 1..Len(combined) :
          /\ combined[n].composite_score.kind = "nan"
          /\ combined[n].factor_count = 2
          /\ \E j, k \in RowsAt(combined[n].datatime) :
                /\ df[j].factor_name # df[k].factor_name
                /\ df[j].weight = 0 /\ df[k].weight = 0

\* C19 as stated: calculate_factor_correlation returns an empty result,
\* raising nothing, unless it is given at least 2 lists each of which is
\* non-empty; so it does for two lists of which one is empty, and for lists
\* of different lengths.
C19_Original ==
    pc \in {"correlated", "ValueError"} =>
        /\ (\/ Len(factor_results_list) < 2
            \/ \E j \in 1..Len(factor_results_list) :
                  factor_results_list[j] = <<>>
            \/ \E j, k \in 1..Len(factor_results_list) :
                  Len(factor_results_list[j]) # Len(factor_results_list[k]))
              => (pc = "correlated" /\ correlation_matrix = EmptyFrame)

\* ===================================================================
\* Properties of the calculate_* calls (under SpecFactors)
\* ===================================================================
\* the warm-up the claim gives for each factor computation
ClaimedWarmup ==
    IF locals.call = "calculate_macd" THEN slow_period + signal_period
    ELSE IF locals.call = "calculate_rsi_factor" THEN period + 1
    ELSE period

\* C16: a factor computation returns the empty list exactly when the bar
\* series is empty or shorter than its warm-up (trend: slow_period +
\* signal_period; RSI: period + 1; CCI, BOLL, momentum, volatility: period);
\* otherwise it returns exactly one FactorResult per bar, in bar order, each
\* with its bar's timestamp; never a partial-length series.
C16_EmptyOrOnePerBar ==
    pc = "calculated" =>
        /\ Len(result) = 0 <=>
              (Len(dataset) = 0 \/ Len(dataset) < ClaimedWarmup)
        /\ Len(result) # 0 =>
              /\ Len(result) = Len(dataset)
              /\ \A k \in 1..Len(result) :
                    result[k].datatime = dataset[k].datatime

\* C16 witness: the trend factor returned one result per bar for a dataset of
\* exactly slow_period + signal_period bars.
C16_Witness ==
    /\ pc = "calculated"
    /\ locals.call = "calculate_macd"
    /\ Len(dataset) = slow_period + signal_period
    /\ Len(result) = Len(dataset)
    /\ \E k \in 1..Len(result) : result[k].value.num # 0

\* the bands, the close and the BOLL factor value of bar k
UpperOf(k) == locals.upper_points[k].value
MidOf(k) == locals.mid_points[k].value
LowerOf(k) == locals.lower_points[k].value
CloseOf(k) == dataset[k].close
BollDone == pc = "calculated" /\ locals.call = "calculate_boll_factor"

\* the fraction v lies in [lo_num / lo_den, hi_num / hi_den]
Between(v, lo_num, lo_den, hi_num, hi_den) ==
    /\ lo_num * v.den <= v.num * lo_den
    /\ v.num * hi_den <= hi_num * v.den

\* v lies in the documented zone of %B = P / W (W > 0)
InZone(P, W, v) ==
    IF P > W THEN Between(v, -1, 1, -4, 5)
    ELSE IF 5 * P > 4 * W THEN Between(v, -4, 5, -1, 2)
    ELSE IF P < 0 THEN Between(v, 4, 5, 1, 1)
    ELSE IF 5 * P < W THEN Between(v, 1, 2, 4, 5)
    ELSE v.num * 2 * W = (W - 2 * P) * v.den

\* C20 as stated: for every bar whose bands are not degenerate, the value of
\* calculate_boll_factor lies in the documented zone of the bar's %B.
C20_Original ==
    BollDone =>
        \A k \in 1..Len(result) :
            UpperOf(k) # LowerOf(k) =>
                InZone(CloseOf(k) - LowerOf(k), UpperOf(k) - LowerOf(k),
                       result[k].value)

\* C20 as amended: for every bar with upper # lower, upper # 0 and
\* lower # 0, the value is a zone score times the volatility adjustment
\* min(bandwidth / 0.1, 1.5), bandwidth = (upper - lower) / mid (0 when
\* mid <= 0), where the zone score lies in the documented zone of the bar's
\* %B; for every other bar the value is 0.
C20_ZoneTimesAdjustment ==
    BollDone =>
        \A k \in 1..Len(result) :
            LET W == UpperOf(k) - LowerOf(k)
                v == result[k].value
            IN  IF W = 0 \/ UpperOf(k) = 0 \/ LowerOf(k) = 0
                THEN v.num = 0
                ELSE IF MidOf(k) <= 0 THEN v.num = 0
                ELSE IF 20 * W <= 3 * MidOf(k)
                THEN \* adjustment = 10 * W / mid
                     InZone(CloseOf(k) - LowerOf(k), W,
                            Frac(v.num * MidOf(k), v.den * 10 * W))
                ELSE \* adjustment = 3 / 2
                     InZone(CloseOf(k) - LowerOf(k), W,
                            Frac(v.num * 2, v.den * 3))

\* C20 witness: a bar above the upper band (%B = 1.2) with bands wide
\* enough for the adjustment 1.5 got the value -1.5, and a bar of the same
\* dataset in the middle zone (%B = 0.2) got 1.5 times its zone score 0.3.
C20_Witness ==
    /\ BollDone
    /\ \E k \in 1..Len(result) :
          /\ UpperOf(k) = 110 /\ LowerOf(k) = 90 /\ CloseOf(k) = 114
          /\ result[k].value = Frac(-3, 2)
    /\ \E k \in 1..Len(result) :
          /\ UpperOf(k) = 110 /\ LowerOf(k) = 90 /\ CloseOf(k) = 94
          /\ result[k].value = Frac(9, 20)

\* ===================================================================
\* Claims about the indicator services (SpecIndicators)
\* ===================================================================

\* the series of result is aligned with the dataset
Aligned ==
    /\ Len(result) = Len(dataset)
    /\ \A k \in 1..Len(result) : result[k].datatime = dataset[k].datatime

\* C21 (as stated; refuted): every non-empty series an indicator method
\* returns has the length of the dataset and its timestamps in the same
\* order.  _calculate_ma_line drops the first period - 1 rows instead of
\* filling them, so its line is shorter and starts at bar period.
C21_Original ==
    (pc = "returned" /\ result # <<>>) => Aligned

\* ===================================================================
\* Claims about the end-to-end scenarios (SpecScenario)
\* ===================================================================

\* the dataset has n bars with the closes first, first + slope, ...
IsRamp(first, slope, n) ==
    /\ Len(dataset) = n
    /\ \A k \in 1..n : dataset[k].close = first + slope * (k - 1)

Calculated(call) == pc = "calculated" /\ locals.call = call

\* DIF crosses above DEA at a bar j <= k (DIF and DEA of a bar are its
\* readings, whether or not the DDService returns them)
CrossedUpBy(k) ==
    \E j \in 2..k :
        /\ locals.readings[j].dif > locals.readings[j].dea
        /\ locals.readings[j - 1].dif <= locals.readings[j - 1].dea

\* C22 (as stated; refuted): for 30 bars with closes 100, 101, ..., 129
\* calculate_macd returns, for every bar from the one where DIF first
\* crosses above DEA, a trend-factor result with direction +1, that is a
\* positive score.  DIF crosses above DEA at the second bar, but 30 bars are
\* fewer than slow_period + signal_period = 35, so _dea returns [] and
\* calculate_macd returns no result at all.
C22_Original ==
    (Calculated("calculate_macd") /\ IsRamp(100, 1, 30)) =>
        \A k \in 1..Len(dataset) :
            CrossedUpBy(k) =>
                /\ k <= Len(result)
                /\ result[k].value.num > 0
                /\ TrendDecode(signal_points[k].value).trend_direction = 1

\* %B of bar k against 1 and 0.8, on the band points of calculate_boll_factor
\* (prices in thousandths)
PercentBNum(k) == dataset[k].close * Unit(locals) - LowerOf(k)
PercentBDen(k) == UpperOf(k) - LowerOf(k)

\* C23 (as stated; refuted): in the 30-bar uptrend with period 20 and
\* std_dev 2 the last close is at or above the upper band (%B >= 1) and the
\* BOLL score of the last bar is negative.
C23_Original ==
    (Calculated("calculate_boll_factor") /\ IsRamp(100, 1, 30)) =>
        /\ Len(result) = 30
        /\ PercentBDen(30) > 0
        /\ PercentBNum(30) >= PercentBDen(30)
        /\ result[30].value.num < 0

\* C23 (corrected): in the 30-bar uptrend 100, 101, ..., 129 with period 20
\* and std_dev 2 the last close lies inside the bands, in the upper zone
\* 0.8 < %B < 1 (the last 20 closes have mean 119.5 and sample standard
\* deviation sqrt(35), so upper = 131.33 > 129 and %B = 0.90), and the BOLL
\* factor score of the last bar is negative.
C23_UpperZoneNegative ==
    (Calculated("calculate_boll_factor") /\ IsRamp(100, 1, 30)) =>
        /\ Len(result) = 30
        /\ PercentBDen(30) > 0
        /\ 5 * PercentBNum(30) > 4 * PercentBDen(30)
        /\ PercentBNum(30) < PercentBDen(30)
        /\ result[30].value.num < 0

\* calculate_boll_factor returned the 30 scores of the 100..129 uptrend, the
\* last one about -0.98 with the upper band between 131 and 132.
C23_Witness ==
    /\ Calculated("calculate_boll_factor")
    /\ IsRamp(100, 1, 30)
    /\ Len(result) = 30
    /\ UpperOf(30) > 131 * Unit(locals)
    /\ UpperOf(30) < 132 * Unit(locals)
    /\ result[30].value.num < 0
    /\ -100 * result[30].value.num > 97 * result[30].value.den

\* C24 (as stated; refuted): on 50 identical closes the RSI factor, the BOLL
\* factor and the volatility factor each return the score 0 at every bar.
\* avg_losses is 0 at every bar, so _calculate_rsi returns 100.0 and the RSI
\* factor scores -1.0, the strongest overbought opinion.
C24_Original ==
    \A call \in {"calculate_rsi_factor", "calculate_boll_factor",
                 "calculate_volatility_factor"} :
        (Calculated(call) /\ \E c \in ScenarioStarts : IsRamp(c, 0, 50)) =>
            /\ Len(result) = 50
            /\ \A k \in 1..50 : result[k].value = Frac(0, 1)

\* ===================================================================
\* The cross-signal state against its inputs (under Spec)
\* ===================================================================

\* after bar i the state agrees with the order of DIF and DEA at bar i
StateAgreesWithInput ==
    (i >= 1 /\ i <= Len(dif_points) /\ i <= Len(dea_points)) =>
        /\ signal_type = "golden" =>
              dif_points[i].value >= dea_points[i].value
        /\ signal_type = "death" =>
              dif_points[i].value <= dea_points[i].value

\* C25 (as stated; refuted): in a Golden state DIF >= DEA and in a Death
\* state DIF <= DEA at every bar, and a bar in a Golden or Death state whose
\* signal is the one of the previous bar has DIF = DEA.  After Golden(0)
\* was held over a bar with DIF = DEA, a bar with DIF > DEA is a golden
\* cross again and emits 100000 again, unchanged, with DIF > DEA.
C25_Original ==
    /\ []StateAgreesWithInput
    /\ [][(AnyBarStep /\ i >= 1 /\ signal_type' \in {"golden", "death"}
             /\ EmittedNow = EmittedBefore) =>
            dif_points[i + 1].value = dea_points[i + 1].value
         ]_vars

\* C25 (corrected): at every bar, a Golden state has DIF >= DEA and a Death
\* state has DIF <= DEA.  A bar in a Golden (Death) state that emits the
\* signal of the previous bar either has DIF = DEA, where no rule applies
\* and the state is held, or is a new cross right after a held bar of
\* Golden(0) (Death(0)): DIF = DEA at the previous bar, DIF > DEA (DIF <
\* DEA) at this one, and the signal is 100000 (200000) both times.
C25_StateAgreesHeldOrRecross ==
    /\ []StateAgreesWithInput
    /\ [][(AnyBarStep /\ i >= 1 /\ signal_type' \in {"golden", "death"}
             /\ EmittedNow = EmittedBefore) =>
            LET d == dif_points[i + 1].value - dea_points[i + 1].value
                pd == dif_points[i].value - dea_points[i].value
            IN  \/ d = 0 /\ NoRule(i + 1, signal_type) /\ State' = State
                \/ /\ pd = 0 /\ d > 0
                   /\ signal_type = "golden" /\ signal_type' = "golden"
                   /\ EmittedBefore = 100000 /\ EmittedNow = 100000
                \/ /\ pd = 0 /\ d < 0
                   /\ signal_type = "death" /\ signal_type' = "death"
                   /\ EmittedBefore = 200000 /\ EmittedNow = 200000
         ]_vars

\* C25 witness: a Death(0) state emitted 200000 three times: at its cross,
\* held over a bar with DIF = DEA, and at the cross that followed the held
\* bar.
C25_Witness ==
    /\ Len(signal_points) = 5
    /\ signal_type = "death"
    /\ Emitted(3) = 200000 /\ Emitted(4) = 200000 /\ Emitted(5) = 200000
    /\ dif_points[4].value = dea_points[4].value
    /\ dif_points[5].value < dea_points[5].value

\* ===================================================================
\* The run-length encoding over long runs (SpecRun)
\* ===================================================================

\* C26 (as stated; refuted): the signal emitted in Golden(n) is decoded by
\* calculate_macd as direction +1 with duration n and the one emitted in
\* Death(n) as direction -1 with duration n, for every n; the Golden
\* encoding never reaches 200000.  Golden(100000) emits 100000 + 100000 =
\* 200000, which is decoded as direction -1 with duration 0.
C26_Original ==
    pc = "done" =>
        /\ signal_type = "golden" =>
              /\ current_signal < 200000
              /\ trend_direction = 1
              /\ trend_duration = signal_counter
        /\ signal_type = "death" =>
              /\ trend_direction = -1
              /\ trend_duration = signal_counter

\* the orders a step added to the engine's open orders
Issued == SubSeq(engine'.orders, Len(engine.orders) + 1, Len(engine'.orders))

\* the step is a call of a strategy's on_bar
OnBarStep == engine'.bars = engine.bars + 1

\* C27: each bar issues at most one order; an order is a buy of fixed_size
\* issued at pos = 0 with composite_score >= buy_threshold, or a sell of
\* exactly |pos| issued at pos > 0; no order at pos < 0, no sell at pos = 0.
C27_OneGuardedOrder ==
    [][OnBarStep =>
        /\ Len(Issued) <= 1
        /\ strategy.pos < 0 => Issued = <<>>
        /\ \A k \in 1..Len(Issued) :
              \/ /\ Issued[k].direction = "buy"
                 /\ Issued[k].volume
                       = Parameters(strategy.strategy_name).fixed_size
                 /\ strategy.pos = 0
                 /\ strategy'.composite_score
                       >= Parameters(strategy.strategy_name).buy_threshold
              \/ /\ Issued[k].direction = "sell"
                 /\ strategy.pos > 0
                 /\ Issued[k].volume = strategy.pos]_vars

\* a bar sold the whole position it held, under one of the exit rules; the
\* sell is still open
C27_Witness ==
    /\ strategy.pos = Parameters(strategy.strategy_name).fixed_size
    /\ engine.exit_reason # "none"
    /\ engine.orders = <<Order("sell", engine.bar.close_price,
                               strategy.pos)>>

\* the open buy orders
OpenBuys == {k \in 1..Len(engine.orders) : engine.orders[k].direction = "buy"}

\* C28: with fills arriving at any later time, the strategy never has more
\* than one buy open and its long position never exceeds fixed_size.
C28_Original ==
    /\ Cardinality(OpenBuys) <= 1
    /\ strategy.pos <= Parameters(strategy.strategy_name).fixed_size

StopLossHit ==
    (engine'.bar.close_price - strategy.entry_price) * 1000
       <= -Parameters(strategy.strategy_name).stop_loss_pct
             * strategy.entry_price

\* close >= entry_price * (1 + take_profit_pct)
TakeProfitHit ==
    (engine'.bar.close_price - strategy.entry_price) * 1000
       >= Parameters(strategy.strategy_name).take_profit_pct
             * strategy.entry_price

\* the gain of the bar exceeds trailing_stop_pct
GainAboveTrailing ==
    (engine'.bar.close_price - strategy.entry_price) * 1000
       > Parameters(strategy.strategy_name).trailing_stop_pct
            * strategy.entry_price

\* the drawdown of the close from the highest price since the entry reaches
\* the trailing limit: stop_loss_pct / 2 in VeighNaBackTest,
\* trailing_stop_pct in the other two
DrawdownHit ==
    LET drawdown == (engine'.bar.close_price - strategy'.highest_price) * 1000
        P == Parameters(strategy.strategy_name)
    IN  IF strategy.strategy_name = "VeighNaBackTest"
        THEN 2 * drawdown <= -P.stop_loss_pct * strategy'.highest_price
        ELSE drawdown <= -P.trailing_stop_pct * strategy'.highest_price

\* C30: at a bar with pos > 0, a close at or beyond the stop-loss or the
\* take-profit level sells the whole position whatever the score; the rule
\* that applies is the first of stop-loss, take-profit, trailing stop,
\* factor signal whose condition holds; in the BOLL+CCI and EMT strategies
\* the trailing stop applies only with a gain above trailing_stop_pct.
C30_ExitPriority ==
    [][(OnBarStep /\ strategy.pos > 0) =>
        LET reason == engine'.exit_reason
            trailing == /\ DrawdownHit
                        /\ strategy.strategy_name # "VeighNaBackTest"
                              => GainAboveTrailing
            signal == strategy'.composite_score
                         <= Parameters(strategy.strategy_name).sell_threshold
        IN  /\ (StopLossHit \/ TakeProfitHit) =>
                   Issued = <<Order("sell", engine'.bar.close_price,
                                    strategy.pos)>>
            /\ reason = "stop_loss" <=> StopLossHit
            /\ reason = "take_profit" <=> (~StopLossHit /\ TakeProfitHit)
            /\ reason = "trailing_stop"
                  <=> (~StopLossHit /\ ~TakeProfitHit /\ trailing)
            /\ reason = "factor_signal"
                  <=> (~StopLossHit /\ ~TakeProfitHit /\ ~trailing /\ signal)
            /\ reason # "none" =>
                   Issued = <<Order("sell", engine'.bar.close_price,
                                    strategy.pos)>>
            /\ reason = "none" => Issued = <<>>
            /\ (reason = "trailing_stop"
                    /\ strategy.strategy_name # "VeighNaBackTest")
                  => GainAboveTrailing]_vars

\* a stop-loss sold the whole position at a bar whose score asked for a
\* buy and whose drawdown had reached the trailing limit as well
C30_Witness ==
    /\ engine.exit_reason = "stop_loss"
    /\ strategy.composite_score
          >= Parameters(strategy.strategy_name).buy_threshold
    /\ strategy.pos > 0
    /\ engine.orders = <<Order("sell", engine.bar.close_price, strategy.pos)>>
    /\ strategy.highest_price > strategy.entry_price

====
